---------------------------- MODULE Spec2Model ----------------------------
(***************************************************************************)
(* Model of the HTTP server of codecrafters-http-server-rust.              *)
(*                                                                         *)
(* Part 1 is the per-connection worker: the bounded stream reader          *)
(* (stream_reader.rs), the request parser (request.rs) with the header     *)
(* map (multi_map.rs, headers.rs), and the connection loop (server.rs).    *)
(* Part 2 is the file writer (file_server.rs) under concurrent requests.   *)
(*                                                                         *)
(* Byte strings are sequences of items [c |-> char, n |-> count]: the      *)
(* character c repeated n times.  Literal text has n = 1 for every item;   *)
(* only filler runs (padding of long lines, large bodies) have n > 1, so   *)
(* that the real limits 1024 and 8192 can be kept.  All text is ASCII.     *)
(***************************************************************************)
EXTENDS Integers, Sequences, FiniteSets, TLC

VARIABLES
    sent,          \* ids of the messages the client has written so far
    inbox,         \* bytes written by the client and not yet consumed by the reader
    client,        \* "open" | "stalled" | "closed" | "reset"
    pc,            \* position of the worker inside handle_connection
    limit,         \* remaining budget of the Take inside StreamReader
    request_line,  \* RequestReader::read: local request_line
    mm,            \* RequestReader::read: local mm (header map being built)
    r,             \* handle_request: the parsed Request (None before the first)
    reqs,          \* history: the requests parsed so far, in order
    out,           \* history: the responses written to the socket, in order
    w,             \* handle_request: the last ResponseWriter that was serialised
    read_result,   \* result of the last request_reader.read()
    conn_ctrl,     \* ConnCtrl decided for the last parsed request
    result,        \* return value of handle_connection ("none" while running)
    used,          \* history: bytes consumed from the stream for the current request
    file,          \* file writer: content of the target file
    fw,            \* file writer: per-request position, body and file offset
    bp,            \* build_path: base path, suffix and result
    routes,        \* Router: the matcher chain of each method
    dispatch,      \* the last match or dispatch and its outcome
    hd,            \* the header lines of the request the client writes
    conns,         \* Server::run: every connection, its client and its worker
    backlog,       \* Server::run: connections the listener has not yet yielded
    resp,          \* a handler call: the request's headers, the ResponseWriter, its bytes
    fsys,          \* file handlers: the directories and files below the working directory
    fh,            \* file handlers: the last call and its response
    sr,            \* a StreamReader on a source of its own, and the calls made on it
    app            \* the application of lib.rs: a request, its dispatch and its response

connVars == <<sent, inbox, client, pc, limit, request_line, mm, r, reqs, out,
              w, read_result, conn_ctrl, result, used>>
fwVars == <<file, fw>>
pathVars == <<bp>>
routeVars == <<routes, dispatch>>
headerVars == <<hd>>
serverVars == <<conns, backlog>>
handlerVars == <<resp, fsys, fh>>
unitVars == <<sr, app>>
restVars == <<pathVars, routeVars, headerVars, serverVars, handlerVars, unitVars>>
vars == <<sent, inbox, client, pc, limit, request_line, mm, r, reqs, out,
          w, read_result, conn_ctrl, result, used, file, fw, bp, routes, dispatch, hd, conns, backlog,
          resp, fsys, fh, sr, app>>

None == [tag |-> "None"]

\* a `let` binding: x is evaluated once and F applied to its value
Let(x, F(_)) == CHOOSE v \in {F(y) : y \in {x}} : TRUE

-----------------------------------------------------------------------------
(* Byte strings *)

Bytes(s) == [i \in 1..Len(s) |-> [c |-> SubSeq(s, i, i), n |-> 1]]

Run(ch, k) == IF k = 0 THEN <<>> ELSE <<[c |-> ch, n |-> k]>>

CRLF == Bytes("\r\n")

\* number of bytes
ByteLen(bs) ==
    Let(bs, LAMBDA b :
        LET len[lo \in 1..Len(b) + 1, hi \in 0..Len(b)] ==
                IF lo > hi THEN 0
                ELSE IF lo = hi THEN b[lo].n
                ELSE len[lo, (lo + hi) \div 2] + len[(lo + hi) \div 2 + 1, hi]
        IN  len[1, Len(b)])

\* the number of leading items that lie within the first k bytes
WholeItems(b, k) ==
    CHOOSE j \in 0..Len(b) :
        /\ ByteLen(SubSeq(b, 1, j)) <= k
        /\ j = Len(b) \/ ByteLen(SubSeq(b, 1, j + 1)) > k

\* the first k bytes (all of them when there are fewer)
TakeBytes(bs, k) ==
    Let(bs, LAMBDA b :
    Let(WholeItems(b, k), LAMBDA j :
    Let(k - ByteLen(SubSeq(b, 1, j)), LAMBDA rem :
        IF j < Len(b) /\ rem > 0
        THEN SubSeq(b, 1, j) \o <<[c |-> b[j + 1].c, n |-> rem]>>
        ELSE SubSeq(b, 1, j))))

\* what is left after the first k bytes
DropBytes(bs, k) ==
    Let(bs, LAMBDA b :
    Let(WholeItems(b, k), LAMBDA j :
    Let(k - ByteLen(SubSeq(b, 1, j)), LAMBDA rem :
        IF j < Len(b) /\ rem > 0
        THEN <<[c |-> b[j + 1].c, n |-> b[j + 1].n - rem]>> \o SubSeq(b, j + 2, Len(b))
        ELSE SubSeq(b, j + 1, Len(b)))))

\* index of the first item at or after position from that equals ch, 0 when
\* there is none
FindFrom(bs, ch, from) ==
    Let(bs, LAMBDA b :
    Let({i \in from..Len(b) : b[i].c = ch}, LAMBDA S :
        IF S = {} THEN 0 ELSE CHOOSE i \in S : \A j \in S : i <= j))

FindChar(bs, ch) == FindFrom(bs, ch, 1)

\* str::strip_suffix("\r\n")
strip_suffix(bs) ==
    Let(bs, LAMBDA b :
    Let(Len(b), LAMBDA k :
        IF k >= 2 /\ b[k - 1] = CRLF[1] /\ b[k] = CRLF[2]
        THEN [ok |-> TRUE, s |-> SubSeq(b, 1, k - 2)]
        ELSE [ok |-> FALSE, s |-> <<>>]))

\* str::split(ch): the parts between the occurrences of ch (always >= 1 part)
split(bs, ch) ==
    Let(bs, LAMBDA b :
        LET parts[from \in 1..Len(b) + 1] ==
                Let(FindFrom(b, ch, from), LAMBDA i :
                    IF i = 0 THEN <<SubSeq(b, from, Len(b))>>
                    ELSE <<SubSeq(b, from, i - 1)>> \o parts[i + 1])
        IN  parts[1])

\* str::split_once(ch)
split_once(bs, ch) ==
    Let(bs, LAMBDA b :
    Let(FindChar(b, ch), LAMBDA i :
        IF i = 0 THEN [ok |-> FALSE, l |-> <<>>, r |-> <<>>]
        ELSE [ok |-> TRUE, l |-> SubSeq(b, 1, i - 1),
              r |-> SubSeq(b, i + 1, Len(b))]))

WhiteSpace == {" ", "\t", "\r", "\n"}

\* str::trim
trim_start(bs) ==
    Let(bs, LAMBDA b :
        LET from[i \in 1..Len(b) + 1] ==
                IF i <= Len(b) /\ b[i].c \in WhiteSpace THEN from[i + 1] ELSE i
        IN  SubSeq(b, from[1], Len(b)))

trim_end(bs) ==
    Let(bs, LAMBDA b :
        LET upto[i \in 0..Len(b)] ==
                IF i >= 1 /\ b[i].c \in WhiteSpace THEN upto[i - 1] ELSE i
        IN  SubSeq(b, 1, upto[Len(b)]))

trim(bs) == trim_end(trim_start(bs))

Upper == "ABCDEFGHIJKLMNOPQRSTUVWXYZ"
Lower == "abcdefghijklmnopqrstuvwxyz"

LowerChar(ch) ==
    Let(ch, LAMBDA x :
        IF \E i \in 1..Len(Upper) : SubSeq(Upper, i, i) = x
        THEN LET i == CHOOSE i \in 1..Len(Upper) : SubSeq(Upper, i, i) = x
             IN  SubSeq(Lower, i, i)
        ELSE x)

\* str::to_lowercase
to_lowercase(bs) ==
    Let(bs, LAMBDA b : [i \in 1..Len(b) |-> [c |-> LowerChar(b[i].c), n |-> b[i].n]])

-----------------------------------------------------------------------------
(* Bounded stream reader (stream_reader.rs) *)

\* Take_read_line with the bug of a budget that does not stop the read
Take_read_line_unbounded(src, lim, eof) ==
    Let(src, LAMBDA b :
    Let(FindChar(b, "\n"), LAMBDA i :
        IF i # 0 THEN [st |-> "ready", line |-> SubSeq(b, 1, i)]
        ELSE IF eof THEN [st |-> "ready", line |-> b]
        ELSE [st |-> "blocked", line |-> b]))

\* BufRead::read_line on Take<BufReader<R>>: the bytes up to and including
\* the first LF, cut at the remaining budget lim; at the end of the budget
\* or of the stream (eof) it delivers what it has, possibly nothing.  With
\* fewer bytes than that in the source and the stream still open, the read
\* blocks.
Take_read_line(src, lim, eof) ==
    Let(src, LAMBDA b :
    Let(FindChar(b, "\n"), LAMBDA i :
    Let(IF i = 0 THEN 0 ELSE ByteLen(SubSeq(b, 1, i)), LAMBDA toLf :
    Let(ByteLen(b), LAMBDA avail :
        IF i # 0 /\ toLf <= lim THEN [st |-> "ready", line |-> SubSeq(b, 1, i)]
        ELSE IF avail >= lim THEN [st |-> "ready", line |-> TakeBytes(b, lim)]
        ELSE IF eof THEN [st |-> "ready", line |-> b]
        ELSE [st |-> "blocked", line |-> b]))))

\* read_line with the bug of zero bytes read taken for a line
read_line_anyline(src, lim, eof) ==
    Let(Take_read_line(src, lim, eof), LAMBDA t :
    Let(ByteLen(t.line), LAMBDA n :
        [st   |-> IF t.st = "blocked" THEN "blocked" ELSE "Ok",
         line |-> t.line,
         n    |-> n]))

\* StreamReader::read_line: zero bytes read is reported as EndOfFile
read_line(src, lim, eof) ==
    Let(Take_read_line(src, lim, eof), LAMBDA t :
    Let(ByteLen(t.line), LAMBDA n :
        [st   |-> IF t.st = "blocked" THEN "blocked"
                  ELSE IF n = 0 THEN "EndOfFile" ELSE "Ok",
         line |-> t.line,
         n    |-> n]))

\* StreamReader::read_exact on the Take: want bytes, never more than lim
read_exact(src, lim, eof, want) ==
    Let(src, LAMBDA b :
    Let(IF want <= lim THEN want ELSE lim, LAMBDA cap :
    Let(ByteLen(b), LAMBDA avail :
        IF avail >= cap
        THEN [st |-> IF want <= lim THEN "Ok" ELSE "UnexpectedEof",
              data |-> TakeBytes(b, cap), n |-> cap]
        ELSE IF eof THEN [st |-> "UnexpectedEof", data |-> b, n |-> avail]
        ELSE [st |-> "blocked", data |-> b, n |-> avail])))

-----------------------------------------------------------------------------
(* Multi-valued map (multi_map.rs) and headers (headers.rs) *)

Scalar(x) == [tag |-> "Scalar", v |-> x]
Vector(xs) == [tag |-> "Vector", v |-> xs]

\* Value::push with the bug of new values put in front
push_front(self, new) ==
    LET tail == IF new.tag = "Scalar" THEN <<new.v>> ELSE new.v
    IN  IF self.tag = "Vector" THEN Vector(tail \o self.v)
        ELSE Vector(tail \o <<self.v>>)

\* Value::push
push(self, new) ==
    LET tail == IF new.tag = "Scalar" THEN <<new.v>> ELSE new.v
    IN  IF self.tag = "Vector" THEN Vector(self.v \o tail)
        ELSE Vector(<<self.v>> \o tail)

\* MultiMap::insert
insert(m, key, value) ==
    Let(<<key, value>>, LAMBDA kv :
        IF kv[1] \in DOMAIN m THEN [m EXCEPT ![kv[1]] = push(m[kv[1]], kv[2])]
        ELSE [k \in DOMAIN m \cup {kv[1]} |-> IF k = kv[1] THEN kv[2] ELSE m[k]])

\* MultiMap::insert_vector
insert_vector(m, key, vector) == insert(m, key, Vector(vector))

\* MultiMap::get_scalar
MultiMap_get_scalar(m, key) ==
    Let(key, LAMBDA k :
        IF k \notin DOMAIN m THEN [st |-> "None", v |-> <<>>]
        ELSE IF m[k].tag = "Scalar" THEN [st |-> "Some", v |-> m[k].v]
        ELSE [st |-> "Err", v |-> <<>>])

\* ValueIter: the values of a Value in order
ValueIter(value) == IF value.tag = "Scalar" THEN <<value.v>> ELSE value.v

\* MultiMap::get_value_iter
get_value_iter(m, key) ==
    Let(key, LAMBDA k :
        IF k \in DOMAIN m THEN [some |-> TRUE, it |-> ValueIter(m[k])]
        ELSE [some |-> FALSE, it |-> <<>>])

\* Headers::get_scalar
Headers_get_scalar(h, key) == MultiMap_get_scalar(h, to_lowercase(key))

\* Headers::get_iter
get_iter(h, key) == get_value_iter(h, to_lowercase(key))

\* Headers::get_connection
get_connection(h) == get_iter(h, Bytes("connection"))

(* Decimal numbers.  usize is 64 bits wide; the values that matter exceed   *)
(* what the checker's integers hold, so a parsed length is kept as its      *)
(* digits without leading zeros and compared digit-wise.                    *)
Digits == "0123456789"
IsDigit(ch) == \E i \in 1..Len(Digits) : SubSeq(Digits, i, i) = ch
DigitVal(ch) == (CHOOSE i \in 1..Len(Digits) : SubSeq(Digits, i, i) = ch) - 1

StripZeros(ds) ==
    Let(ds, LAMBDA d :
        LET from[i \in 1..Len(d) + 1] ==
                IF i < Len(d) /\ d[i] = "0" THEN from[i + 1] ELSE i
        IN  SubSeq(d, from[1], Len(d)))

\* a < b for digit sequences without leading zeros
DecLess(a, b) ==
    Let(<<a, b>>, LAMBDA p :
        LET x == p[1]
            y == p[2]
            less[i \in 1..Len(x) + 1] ==
                IF i > Len(x) THEN FALSE
                ELSE IF x[i] # y[i] THEN DigitVal(x[i]) < DigitVal(y[i])
                ELSE less[i + 1]
        IN  IF Len(x) # Len(y) THEN Len(x) < Len(y) ELSE less[1])

Dec(s) == [i \in 1..Len(s) |-> SubSeq(s, i, i)]
UsizeMax == Dec("18446744073709551615")
IsizeMax == Dec("9223372036854775807")

DecToNat(ds) ==
    Let(ds, LAMBDA d :
        LET val[k \in 0..Len(d)] == IF k = 0 THEN 0 ELSE 10 * val[k - 1] + DigitVal(d[k])
        IN  val[Len(d)])

\* str::parse::<usize>: an optional "+", then one or more digits, at most usize::MAX
parse_usize(bs) ==
    Let(IF bs # <<>> /\ bs[1].c = "+" THEN Tail(bs) ELSE bs, LAMBDA body :
    Let(body # <<>> /\ \A i \in 1..Len(body) : body[i].n = 1 /\ IsDigit(body[i].c), LAMBDA ok :
    Let(StripZeros([i \in 1..Len(body) |-> body[i].c]), LAMBDA ds :
        IF ok /\ ~DecLess(UsizeMax, ds) THEN [ok |-> TRUE, dec |-> ds]
        ELSE [ok |-> FALSE, dec |-> <<>>])))

\* Headers::get_content_length
get_content_length(h) ==
    Let(Headers_get_scalar(h, Bytes("content-length")), LAMBDA s :
        IF s.st = "Err" THEN [st |-> "Err", dec |-> <<>>]
        ELSE IF s.st = "None" THEN [st |-> "None", dec |-> <<>>]
        ELSE Let(parse_usize(s.v), LAMBDA p :
                 IF p.ok THEN [st |-> "Some", dec |-> p.dec]
                 ELSE [st |-> "Err", dec |-> <<>>]))

-----------------------------------------------------------------------------
(* Request line (request.rs) *)

\* RequestLine::http_method / request_target / http_version:
\* split(" ").nth(i).unwrap(); a missing part makes unwrap panic
nth(parts, i) ==
    Let(parts, LAMBDA ps :
        IF i + 1 <= Len(ps) THEN [some |-> TRUE, v |-> ps[i + 1]]
        ELSE [some |-> FALSE, v |-> <<>>])

http_method(line) == nth(split(line, " "), 0)
request_target(line) == nth(split(line, " "), 1)
http_version(line) == nth(split(line, " "), 2)

-----------------------------------------------------------------------------
(* The client: the messages it can write to the connection *)

MaxSend == 2        \* messages the client writes on one connection
Writers == 3        \* concurrent requests to the file writer
MaxBodyLen == 3     \* longest body a file-writer request carries
MaxSegs == 2        \* most segments of a base path and of a suffix
MaxRoutes == 3      \* most calls of add_route before the server runs
MaxLines == 2       \* most header lines of a generated request
MaxConns == 3       \* connections made to the server

RequestLineLimit == 1024
HeaderLimit == 8192
BodyLimit == 8192

RECURSIVE Concat(_)
Concat(ss) == IF ss = <<>> THEN <<>> ELSE ss[1] \o Concat(Tail(ss))

\* the wire form of a request: request line, header lines, blank line, body
Encode(line, hdrs, body) ==
    line \o CRLF \o Concat([i \in 1..Len(hdrs) |-> hdrs[i] \o CRLF]) \o CRLF \o body

\* a request message.  wf: it is well formed and within every limit;
\* close: one of its Connection values is `close`; over: it exceeds a limit
Msg(line, hdrs, body, wf, close, over) ==
    [bytes |-> Encode(line, hdrs, body), request_line |-> line, body |-> body,
     wf |-> wf, close |-> close, over |-> over]

\* raw bytes that are no complete request
Raw(bs) ==
    [bytes |-> bs, request_line |-> <<>>, body |-> <<>>,
     wf |-> FALSE, close |-> FALSE, over |-> FALSE]

\* a header line "X: xx...x" of exactly k bytes, CRLF included
PadHeader(k) == Bytes("X: ") \o Run("x", k - 5)

\* a request line "GET /xx...x HTTP/1.1" of exactly k bytes, CRLF included
PadLine(k) == Bytes("GET /") \o Run("x", k - 16) \o Bytes(" HTTP/1.1")

GetRoot == Bytes("GET / HTTP/1.1")

Messages ==
    [get          |-> Msg(GetRoot, <<>>, <<>>, TRUE, FALSE, FALSE),
     about        |-> Msg(Bytes("GET /about HTTP/1.1"), <<Bytes("Connection: keep-alive")>>,
                          <<>>, TRUE, FALSE, FALSE),
     close        |-> Msg(GetRoot, <<Bytes("Connection: close")>>, <<>>, TRUE, TRUE, FALSE),
     list_close   |-> Msg(GetRoot, <<Bytes("CONNECTION: keep-alive, close")>>,
                          <<>>, TRUE, TRUE, FALSE),
     upper_close  |-> Msg(GetRoot, <<Bytes("Connection: Close")>>, <<>>, TRUE, FALSE, FALSE),
     two_lines    |-> Msg(GetRoot, <<Bytes("Connection: keep-alive"), Bytes("connection:close")>>,
                          <<>>, TRUE, TRUE, FALSE),
     post         |-> Msg(Bytes("POST /files/a HTTP/1.1"), <<Bytes("Content-Length: 2")>>,
                          Bytes("hi"), TRUE, FALSE, FALSE),
     empty_target |-> Msg(Bytes("GET  HTTP/1.1"), <<>>, <<>>, FALSE, FALSE, FALSE),
     one_part     |-> Msg(Bytes("GET"), <<>>, <<>>, FALSE, FALSE, FALSE),
     post_huge    |-> Msg(Bytes("POST / HTTP/1.1"),
                          <<Bytes("Content-Length: 18446744073709551615")>>,
                          <<>>, FALSE, FALSE, TRUE),
     partial      |-> Raw(GetRoot \o CRLF),
     line_max     |-> Msg(PadLine(RequestLineLimit), <<>>, <<>>, TRUE, FALSE, FALSE),
     line_over    |-> Msg(PadLine(RequestLineLimit + 1), <<>>, <<>>, FALSE, FALSE, TRUE),
     block_max    |-> Msg(GetRoot, <<PadHeader(HeaderLimit - 2)>>, <<>>, TRUE, FALSE, FALSE),
     block_edge   |-> Msg(GetRoot, <<PadHeader(HeaderLimit \div 2), PadHeader(HeaderLimit \div 2)>>,
                          <<>>, FALSE, FALSE, TRUE),
     block_cut    |-> Msg(GetRoot, <<PadHeader(HeaderLimit - 1)>>, <<>>, FALSE, FALSE, TRUE),
     header_over  |-> Msg(GetRoot, <<PadHeader(HeaderLimit + 1)>>, <<>>, FALSE, FALSE, TRUE),
     post_over    |-> Msg(Bytes("POST / HTTP/1.1"), <<Bytes("Content-Length: 8193")>>,
                          Run("x", BodyLimit + 1), FALSE, FALSE, TRUE),
     post_lower   |-> Msg(Bytes("post /files/a HTTP/1.1"), <<Bytes("Content-Length: 2")>>,
                          Bytes("hi"), TRUE, FALSE, FALSE),
     post_mixed   |-> Msg(Bytes("PoSt /files/a HTTP/1.1"), <<Bytes("Content-Length: 2")>>,
                          Bytes("hi"), TRUE, FALSE, FALSE),
     get_lower    |-> Msg(Bytes("get / HTTP/1.1"), <<>>, <<>>, TRUE, FALSE, FALSE),
     get_length   |-> Msg(Bytes("GeT / HTTP/1.1"), <<Bytes("Content-Length: 0")>>,
                          <<>>, TRUE, FALSE, FALSE),
     put_length   |-> Msg(Bytes("PUT /files/a HTTP/1.1"), <<Bytes("Content-Length: 0")>>,
                          <<>>, TRUE, FALSE, FALSE),
     posts        |-> Msg(Bytes("POSTS / HTTP/1.1"), <<Bytes("Content-Length: 0")>>,
                          <<>>, TRUE, FALSE, FALSE),
     cut_line     |-> Raw(Bytes("GET / HT")),
     cut_cr       |-> Raw(GetRoot \o Bytes("\r")),
     cut_header   |-> Raw(GetRoot \o CRLF \o Bytes("Accept: */")),
     cut_headers  |-> Raw(GetRoot \o CRLF \o Bytes("Accept: */*") \o CRLF),
     post_nolen   |-> Msg(Bytes("POST /files/a HTTP/1.1"), <<Bytes("Accept: */*")>>,
                          Bytes("hi"), FALSE, FALSE, FALSE),
     post_badlen  |-> Msg(Bytes("POST /files/a HTTP/1.1"), <<Bytes("Content-Length: two")>>,
                          Bytes("hi"), FALSE, FALSE, FALSE),
     post_neg     |-> Msg(Bytes("POST /files/a HTTP/1.1"), <<Bytes("Content-Length: -2")>>,
                          Bytes("hi"), FALSE, FALSE, FALSE),
     post_twice   |-> Msg(Bytes("POST /files/a HTTP/1.1"),
                          <<Bytes("Content-Length: 2"), Bytes("Content-Length: 2")>>,
                          Bytes("hi"), FALSE, FALSE, FALSE),
     post_list    |-> Msg(Bytes("POST /files/a HTTP/1.1"), <<Bytes("Content-Length: 2, 2")>>,
                          Bytes("hi"), FALSE, FALSE, FALSE),
     post_short   |-> Msg(Bytes("POST /files/a HTTP/1.1"), <<Bytes("Content-Length: 2")>>,
                          Bytes("h"), FALSE, FALSE, FALSE),
     get_body     |-> Msg(GetRoot, <<Bytes("Content-Length: 2")>>,
                          Bytes("hi"), FALSE, FALSE, FALSE),
     put_body     |-> Msg(Bytes("PUT /files/a HTTP/1.1"), <<Bytes("Content-Length: 2")>>,
                          Bytes("hi"), FALSE, FALSE, FALSE),
     options      |-> Msg(Bytes("OPTIONS * http/1.0"), <<>>, <<>>, TRUE, FALSE, FALSE),
     odd          |-> Msg(Bytes("x /a?b=c:d v"), <<Bytes("Accept: */*")>>, <<>>,
                          TRUE, FALSE, FALSE)]

\* the messages of the connection life cycle, of the size limits, and of
\* a client that stalls
LifecycleMsgs == {"get", "about", "close", "list_close", "upper_close", "two_lines",
                  "post", "empty_target", "one_part", "post_huge", "partial"}
LimitMsgs == {"get", "line_max", "line_over", "block_max", "block_edge", "block_cut",
              "header_over", "post_over", "post_huge"}
StallMsgs == {"get", "about", "close", "partial", "post", "one_part"}

\* requests that differ in their method token, and streams that end
\* before the request does
MethodMsgs == {"get", "get_lower", "get_length", "post", "post_lower", "post_mixed",
               "put_length", "posts"}
CutMsgs == {"get", "partial", "cut_line", "cut_cr", "cut_header", "cut_headers"}

\* POST requests whose Content-Length is missing, is no length or comes
\* twice, and one whose body is shorter than its Content-Length
BodyMsgs == {"get", "post", "post_nolen", "post_badlen", "post_neg", "post_twice",
             "post_list", "post_short"}

\* requests that differ in the three parts of their request line
LineMsgs == {"get", "get_lower", "about", "post", "post_mixed", "options", "odd"}

\* requests without a body method that bytes follow after the blank line
TailMsgs == {"get", "get_length", "get_body", "put_body"}

-----------------------------------------------------------------------------
(* The connection worker (server.rs, request.rs) *)

\* statuses a handler can set on the response (Handler::handle is a
\* parameter of handle_connection)
HandlerStatuses == {200, 400, 404, 405, 500}

NoUse == [line |-> 0, headers |-> 0, body |-> 0, last |-> 0, budget |-> 0]

ConnInit ==
    /\ sent = <<>>
    /\ inbox = <<>>
    /\ client = "open"
    /\ pc = "request_line"
    /\ limit = RequestLineLimit      \* read() sets it before the first read
    /\ request_line = <<>>
    /\ mm = <<>>
    /\ r = None
    /\ reqs = <<>>
    /\ out = <<>>
    /\ w = None
    /\ read_result = "none"
    /\ conn_ctrl = "none"
    /\ result = "none"
    /\ used = NoUse
    /\ file = <<>>
    /\ fw = [i \in 1..Writers |-> [pc |-> "idle", body |-> <<>>, status |-> 0]]

\* the parts of the program that run outside a connection's worker are
\* not in use
PathIdle == bp = None

\* an empty matcher chain: Exact::new, Dynamic::new, Subtree::new
Chain_new == [exact |-> <<>>, dynamic |-> <<>>, subtree |-> <<>>]

\* the route table before the first add_route; n counts the registrations
RouteIdle ==
    /\ routes = [n |-> 0, chain |-> [m \in {"Get", "Post"} |-> Chain_new]]
    /\ dispatch = None

HeaderIdle == hd = None

\* Server::new: the listener is bound and nobody has connected
ServerIdle ==
    /\ conns = [c \in 1..MaxConns |->
                   [st |-> "none", client |-> "none", handler |-> "none",
                    pc |-> "none", out |-> <<>>]]
    /\ backlog = <<>>

\* no handler has been called
RespIdle == resp = None
FilesIdle == fsys = None /\ fh = None

\* no StreamReader outside the connection, and no application request
UnitIdle == sr = None /\ app = None

Init == ConnInit /\ PathIdle /\ RouteIdle /\ HeaderIdle /\ ServerIdle /\ UnitIdle /\ RespIdle /\ FilesIdle

\* the client writes one more message
Send(m) ==
    /\ client = "open"
    /\ result = "none"
    /\ Len(sent) < MaxSend
    /\ sent' = Append(sent, m)
    /\ inbox' = inbox \o Messages[m].bytes
    /\ UNCHANGED <<client, pc, limit, request_line, mm, r, reqs, out, w,
                   read_result, conn_ctrl, result, used, file, fw, restVars>>

\* the client stops writing and keeps the connection open ("stalled"),
\* closes its side ("closed": the reader sees end of file after the bytes
\* already written), or aborts the connection ("reset": socket reads and
\* writes fail)
ClientTurns(how) ==
    /\ client = "open"
    /\ result = "none"
    /\ client' = how
    /\ UNCHANGED <<sent, inbox, pc, limit, request_line, mm, r, reqs, out, w,
                   read_result, conn_ctrl, result, used, file, fw, restVars>>

\* TcpStream::write_all succeeds unless the connection was aborted
WriteOk == client # "reset"

\* ReadFailed with the bug of keeping the connection after the 400
ReadFailed_keepalive(e) ==
    /\ read_result' = e
    /\ UNCHANGED <<r, reqs>>
    /\ IF e = "EndOfFile"
       THEN /\ conn_ctrl' = "Close"
            /\ result' = "Ok"
            /\ pc' = "done"
            /\ UNCHANGED <<w, out>>
       ELSE /\ w' = [status_code |-> 400]
            /\ out' = Append(out, [src |-> "read_error", request_line |-> <<>>,
                                   ok |-> WriteOk])
            /\ IF WriteOk
               THEN conn_ctrl' = "KeepAlive" /\ result' = "none" /\ pc' = "request_line"
               ELSE result' = "Err" /\ pc' = "done" /\ UNCHANGED conn_ctrl

\* handle_request, the Err arm of request_reader.read(), and the arm of
\* handle_connection that follows: end of file closes silently, any other
\* error is answered with 400 and closes.  out records every write_all
\* with its outcome.
ReadFailed(e) ==
    /\ read_result' = e
    /\ pc' = "done"
    /\ UNCHANGED <<r, reqs>>
    /\ IF e = "EndOfFile"
       THEN /\ conn_ctrl' = "Close"
            /\ result' = "Ok"
            /\ UNCHANGED <<w, out>>
       ELSE /\ w' = [status_code |-> 400]
            /\ out' = Append(out, [src |-> "read_error", request_line |-> <<>>,
                                   ok |-> WriteOk])
            /\ IF WriteOk
               THEN conn_ctrl' = "Close" /\ result' = "Ok"
               ELSE result' = "Err" /\ UNCHANGED conn_ctrl

\* ReadDone with the bug of going on to the next read without answering
ReadDone_unanswered(headers, body) ==
    /\ r' = [request_line |-> request_line, param |-> None,
             headers |-> headers, body |-> body]
    /\ reqs' = Append(reqs, r')
    /\ read_result' = "Ok"
    /\ pc' = "request_line"
    /\ UNCHANGED <<out, w, conn_ctrl, result>>

\* RequestReader::read returned Ok(Request)
ReadDone(headers, body) ==
    /\ r' = [request_line |-> request_line, param |-> None,
             headers |-> headers, body |-> body]
    /\ reqs' = Append(reqs, r')
    /\ read_result' = "Ok"
    /\ pc' = "handle"
    /\ UNCHANGED <<out, w, conn_ctrl, result>>

\* LineAccepted with the bug of accepting a line of fewer parts
LineAccepted_atmost(line) == Len(split(line, " ")) <= 3

\* the request line is accepted when it splits into three parts
LineAccepted(line) == Len(split(line, " ")) = 3

\* RequestReader::read, up to the first set_limit(8 * 1024)
ReadRequestLine ==
    /\ pc = "request_line"
    /\ \E rl \in {read_line(inbox, RequestLineLimit, client = "closed")} :
       \E s \in {strip_suffix(rl.line)} :
           /\ rl.st # "blocked"
           /\ inbox' = DropBytes(inbox, rl.n)
           /\ used' = [line |-> rl.n, headers |-> 0, body |-> 0,
                       last |-> rl.n, budget |-> RequestLineLimit]
           /\ mm' = <<>>
           /\ IF rl.st = "EndOfFile"
              THEN /\ ReadFailed("EndOfFile")
                   /\ limit' = RequestLineLimit - rl.n
                   /\ UNCHANGED request_line
              ELSE IF ~s.ok \/ ~LineAccepted(s.s)
              THEN /\ ReadFailed("InvalidRequest")
                   /\ limit' = RequestLineLimit - rl.n
                   /\ UNCHANGED request_line
              ELSE /\ request_line' = s.s
                   /\ limit' = HeaderLimit
                   /\ pc' = "headers"
                   /\ UNCHANGED <<r, reqs, out, w, read_result, conn_ctrl, result>>
    /\ UNCHANGED <<sent, client, file, fw, restVars>>

\* the content length as a number of bytes to read; every length of more
\* than six digits exceeds the budget and reads the same way
WantOf(dec) == IF Len(dec) <= 6 THEN DecToNat(dec) ELSE 999999

\* vec![0; content_length]: a capacity above isize::MAX panics
AllocPanics(dec) == DecLess(IsizeMax, dec)

\* outcome of a turn of RequestReader::read: st, the bytes consumed as
\* header line (hn) and as body (bn), the header map and the body
Turn(st, hn, bn, m, body) == [st |-> st, hn |-> hn, bn |-> bn, mm |-> m, body |-> body]

\* BodyPhase with the bug of a reader that takes what follows the blank
\* line whatever the method is
BodyPhase_drain(src, eof, line, m, hn) ==
    Turn("Ok", hn, ByteLen(src), m, None)

\* RequestReader::read after the blank line: set_limit(8 * 1024), then for
\* a post the content length, the body buffer and read_exact
BodyPhase(src, eof, line, m, hn) ==
    Let(http_method(line).v, LAMBDA method :
    Let(get_content_length(m), LAMBDA cl :
        IF to_lowercase(method) # Bytes("post") THEN Turn("Ok", hn, 0, m, None)
        ELSE IF cl.st # "Some" THEN Turn("InvalidRequest", hn, 0, m, None)
        ELSE IF AllocPanics(cl.dec) THEN Turn("panic", hn, 0, m, None)
        ELSE Let(read_exact(src, BodyLimit, eof, WantOf(cl.dec)), LAMBDA rb :
                 IF rb.st = "blocked" THEN Turn("blocked", hn, rb.n, m, None)
                 ELSE IF rb.st = "UnexpectedEof" THEN Turn("InvalidRequest", hn, rb.n, m, None)
                 ELSE Turn("Ok", hn, rb.n, m, rb.data))))

\* RequestReader::read, one turn of the header loop; the turn that reads
\* the blank line goes on with the body phase
HeaderTurn(src, lim, eof, line, m) ==
    Let(read_line(src, lim, eof), LAMBDA rl :
    Let(strip_suffix(rl.line), LAMBDA s :
    Let(split_once(s.s, ":"), LAMBDA kv :
    Let(split(kv.r, ","), LAMBDA parts :
    Let([i \in 1..Len(parts) |-> trim(parts[i])], LAMBDA values :
        IF rl.st = "blocked" THEN Turn("blocked", rl.n, 0, m, None)
        ELSE IF rl.st = "EndOfFile" THEN Turn("EndOfFile", rl.n, 0, m, None)
        ELSE IF ~s.ok THEN Turn("InvalidRequest", rl.n, 0, m, None)
        ELSE IF s.s = <<>> THEN BodyPhase(DropBytes(src, rl.n), eof, line, m, rl.n)
        ELSE IF ~kv.ok THEN Turn("InvalidRequest", rl.n, 0, m, None)
        ELSE Turn("more", rl.n, 0, insert_vector(m, to_lowercase(kv.l), values), None))))))

\* LimitAfter with the bug of a header budget set anew for every line
LimitAfter_perline(t) ==
    IF t.st \in {"Ok", "panic"} \/ t.bn > 0 THEN BodyLimit - t.bn ELSE HeaderLimit

\* the budget left after a turn
LimitAfter(t) ==
    IF t.st \in {"Ok", "panic"} \/ t.bn > 0 THEN BodyLimit - t.bn ELSE limit - t.hn

ReadHeaderLine ==
    /\ pc = "headers"
    /\ \E t \in {HeaderTurn(inbox, limit, client = "closed", request_line, mm)} :
           /\ t.st # "blocked"
           /\ inbox' = DropBytes(inbox, t.hn + t.bn)
           /\ limit' = LimitAfter(t)
           /\ used' = [used EXCEPT !.headers = @ + t.hn, !.body = @ + t.bn,
                                   !.last = t.hn, !.budget = limit]
           /\ mm' = t.mm
           /\ CASE t.st = "more" ->
                     UNCHANGED <<pc, r, reqs, out, w, read_result, conn_ctrl, result>>
                [] t.st = "Ok" -> ReadDone(t.mm, t.body)
                [] t.st = "panic" ->
                     /\ result' = "panic"
                     /\ pc' = "done"
                     /\ UNCHANGED <<r, reqs, out, w, read_result, conn_ctrl>>
                [] OTHER -> ReadFailed(t.st)
    /\ UNCHANGED <<sent, client, request_line, file, fw, restVars>>

\* the pending socket read cannot be served
Blocked ==
    CASE pc = "request_line" -> read_line(inbox, RequestLineLimit, FALSE).st = "blocked"
      [] pc = "headers"      -> HeaderTurn(inbox, limit, FALSE, request_line, mm).st = "blocked"
      [] OTHER               -> FALSE

\* ReadError with the bug of a socket without read timeout
ReadError_notimeout ==
    /\ pc \in {"request_line", "headers"}
    /\ client = "reset"
    /\ UNCHANGED <<inbox, limit, used>>
    /\ ReadFailed("Io")
    /\ UNCHANGED <<sent, client, request_line, mm, file, fw, restVars>>

\* a socket read fails: the read timeout fires on a read that waits for
\* bytes, or the connection was aborted.  The error leaves read() as an
\* I/O error (in the body phase its kind is not UnexpectedEof).  A read
\* that waited has consumed the bytes that were there.
ReadError ==
    /\ pc \in {"request_line", "headers"}
    /\ \/ client = "reset"
       \/ client \in {"open", "stalled"} /\ Blocked
    /\ \E t \in {HeaderTurn(inbox, limit, FALSE, request_line, mm)} :
       \E hn \in {IF ~Blocked THEN 0 ELSE IF pc = "headers" THEN t.hn ELSE ByteLen(inbox)} :
       \E bn \in {IF Blocked /\ pc = "headers" THEN t.bn ELSE 0} :
           /\ inbox' = DropBytes(inbox, hn + bn)
           /\ limit' = IF pc = "request_line" THEN RequestLineLimit - hn
                       ELSE IF bn > 0 THEN BodyLimit - bn ELSE limit - hn
           /\ used' = IF pc = "request_line"
                      THEN [line |-> hn, headers |-> 0, body |-> 0,
                            last |-> hn, budget |-> RequestLineLimit]
                      ELSE [used EXCEPT !.headers = @ + hn, !.body = @ + bn,
                                        !.last = hn, !.budget = limit]
    /\ ReadFailed("Io")
    /\ UNCHANGED <<sent, client, request_line, mm, file, fw, restVars>>

\* WantsClose with the bug of looking at the first value only
WantsClose_first(h) ==
    Let(get_connection(h), LAMBDA c :
        c.some /\ c.it # <<>> /\ c.it[1] = Bytes("close"))

\* handle_request: `close` among the values of the Connection header
WantsClose(h) ==
    Let(get_connection(h), LAMBDA c :
        c.some /\ \E i \in 1..Len(c.it) : c.it[i] = Bytes("close"))

\* handle_request after a successful read: the request span, the
\* connection control, the handler, the serialised response and its write
Respond ==
    /\ pc = "handle"
    /\ conn_ctrl' = IF WantsClose(r.headers) THEN "Close" ELSE "KeepAlive"
    /\ IF ~request_target(r.request_line).some
       THEN /\ result' = "panic"
            /\ pc' = "done"
            /\ UNCHANGED <<w, out>>
       ELSE \E status \in HandlerStatuses :
            /\ w' = [status_code |-> status]
            /\ out' = Append(out, [src |-> "handler", request_line |-> r.request_line,
                                   ok |-> WriteOk])
            /\ IF ~WriteOk THEN result' = "Err" /\ pc' = "done"
               ELSE IF conn_ctrl' = "Close" THEN result' = "Ok" /\ pc' = "done"
               ELSE result' = "none" /\ pc' = "request_line"
    /\ UNCHANGED <<sent, inbox, client, limit, request_line, mm, r, reqs,
                   read_result, used, file, fw, restVars>>

Worker == ReadRequestLine \/ ReadHeaderLine \/ ReadError \/ Respond

Client(pool, modes) ==
    \/ \E m \in pool : Send(m)
    \/ \E how \in modes : ClientTurns(how)

Next == Worker \/ Client(LifecycleMsgs, {"closed", "reset"})

Spec == Init /\ [][Next]_vars

\* the same worker, with the client writing the messages around the limits
LimitNext == Worker \/ Client(LimitMsgs, {"closed", "reset"})

LimitSpec == Init /\ [][LimitNext]_vars

\* the same worker, with a client that may stall; the worker thread is
\* scheduled and the read timeout of a waiting read fires
StallNext == Worker \/ Client(StallMsgs, {"stalled", "closed"})

FairSpec == Init /\ [][StallNext]_vars /\ WF_vars(Worker)

\* the same worker, with requests of every spelling of the methods
MethodNext == Worker \/ Client(MethodMsgs, {"closed", "reset"})

MethodSpec == Init /\ [][MethodNext]_vars

\* the same worker, with requests of many request lines
LineNext == Worker \/ Client(LineMsgs, {"closed", "reset"})

LineSpec == Init /\ [][LineNext]_vars

\* the same worker, with requests that bytes follow
TailNext == Worker \/ Client(TailMsgs, {"closed", "reset"})

TailSpec == Init /\ [][TailNext]_vars

\* the same worker, with a client whose stream ends early
CutNext == Worker \/ Client(CutMsgs, {"closed", "reset"})

CutSpec == Init /\ [][CutNext]_vars

\* the same worker, with POST requests that fail in the body phase
BodyNext == Worker \/ Client(BodyMsgs, {"closed", "reset"})

BodySpec == Init /\ [][BodyNext]_vars

-----------------------------------------------------------------------------
(* The file writer (file_server.rs): the handler runs on the thread of each *)
(* connection, so several requests can be inside it for the same path.      *)

\* the body of the request of writer i: n bytes of its own letter
BodyOf(i, n) == [k \in 1..n |-> SubSeq("abcdefgh", i, i)]

\* a POST for the path reaches the handler: get_param, build_path and
\* create_dir_all have succeeded
FWStart(i, n) ==
    /\ fw[i].pc = "idle"
    /\ fw' = [fw EXCEPT ![i] = [pc |-> "open", body |-> BodyOf(i, n), status |-> 0]]
    /\ UNCHANGED file
    /\ UNCHANGED <<connVars, restVars>>

\* fs::write, first half: the file is created or truncated and opened at
\* offset 0; a failure is answered with 500
FWOpen(i, ok) ==
    /\ fw[i].pc = "open"
    /\ IF ok
       THEN /\ file' = <<>>
            /\ fw' = [fw EXCEPT ![i].pc = "write"]
       ELSE /\ fw' = [fw EXCEPT ![i].pc = "done", ![i].status = 500]
            /\ UNCHANGED file
    /\ UNCHANGED <<connVars, restVars>>

\* bytes written at offset 0 over the content that is there
WriteAt0(content, body) ==
    body \o SubSeq(content, Len(body) + 1, Len(content))

\* fs::write, second half: write_all of the body at the descriptor's
\* offset, then 201
FWWrite(i) ==
    /\ fw[i].pc = "write"
    /\ file' = WriteAt0(file, fw[i].body)
    /\ fw' = [fw EXCEPT ![i].pc = "done", ![i].status = 201]
    /\ UNCHANGED <<connVars, restVars>>

FWNext ==
    \E i \in 1..Writers :
        \/ \E n \in 1..MaxBodyLen : FWStart(i, n)
        \/ \E ok \in BOOLEAN : FWOpen(i, ok)
        \/ FWWrite(i)

FWSpec == Init /\ [][FWNext]_vars

-----------------------------------------------------------------------------
(* The path resolver of the file handlers (file_server.rs).  A path is its  *)
(* text split at `/`: abs tells whether it starts with `/`, segs are the    *)
(* segments in order ("assets/foo" is <<"assets", "foo">>, "." is <<".">>,  *)
(* "/" has no segment, and so has the empty path).                          *)

Path(abs, segs) == [abs |-> abs, segs |-> segs]

\* Path::components: the root, then the segments; a `.` is dropped unless
\* it is the first segment of a relative path
components(p) ==
    LET keep(i) == p.segs[i] # "." \/ (i = 1 /\ ~p.abs)
        idx == {i \in 1..Len(p.segs) : keep(i)}
        nth_kept[k \in 1..Cardinality(idx)] ==
            CHOOSE i \in idx : Cardinality({j \in idx : j < i}) = k - 1
    IN  (IF p.abs THEN <<"/">> ELSE <<>>)
        \o [k \in 1..Cardinality(idx) |-> p.segs[nth_kept[k]]]

\* Path::join: an absolute suffix replaces the base
join(base, suffix) ==
    IF suffix.abs THEN suffix ELSE Path(base.abs, base.segs \o suffix.segs)

\* path_clean::clean, the segments: `.` is dropped, `..` removes the name
\* before it, is dropped at the root and is kept at the start of a relative
\* path
RECURSIVE CleanSegs(_, _, _)
CleanSegs(abs, segs, acc) ==
    IF segs = <<>> THEN acc
    ELSE LET s == Head(segs)
             rest == Tail(segs)
         IN  IF s = "." THEN CleanSegs(abs, rest, acc)
             ELSE IF s # ".." THEN CleanSegs(abs, rest, Append(acc, s))
             ELSE IF acc # <<>> /\ acc[Len(acc)] # ".."
                  THEN CleanSegs(abs, rest, SubSeq(acc, 1, Len(acc) - 1))
             ELSE IF abs THEN CleanSegs(abs, rest, acc)
             ELSE CleanSegs(abs, rest, Append(acc, ".."))

\* path_clean::clean: the empty result is `.`
clean(p) ==
    LET segs == CleanSegs(p.abs, p.segs, <<>>)
    IN  IF segs = <<>> /\ ~p.abs THEN Path(FALSE, <<".">>) ELSE Path(p.abs, segs)

\* Path::strip_prefix("./"): the components after a leading `.`
strip_prefix_dot(p) ==
    LET cs == components(p)
    IN  IF cs # <<>> /\ cs[1] = "." THEN [ok |-> TRUE, comps |-> Tail(cs)]
        ELSE [ok |-> FALSE, comps |-> <<>>]

\* Path::starts_with, on components
starts_with(cs, base) ==
    /\ Len(base) <= Len(cs)
    /\ SubSeq(cs, 1, Len(base)) = base

\* build_path
build_path(base_path, suffix) ==
    LET path == clean(join(base_path, suffix))
        sp == strip_prefix_dot(base_path)
        stripped == IF sp.ok THEN sp.comps ELSE components(base_path)
    IN  IF ~starts_with(components(path), stripped)
        THEN [ok |-> FALSE, path |-> None]
        ELSE [ok |-> TRUE, path |-> path]

\* the segments a path can be made of, and the paths of at most MaxSegs
\* segments
Segs == {".", "..", "a", "b"}
SegSeqs == UNION {[1..n -> Segs] : n \in 0..MaxSegs}
Paths == {Path(abs, segs) : abs \in BOOLEAN, segs \in SegSeqs}

\* a handler is mounted on a base path and receives a suffix
PathStart == bp \in {[base |-> b, suffix |-> x, res |-> None] : b \in Paths, x \in Paths}

BuildPath ==
    /\ bp # None
    /\ bp.res = None
    /\ bp' = [bp EXCEPT !.res = build_path(bp.base, bp.suffix)]
    /\ UNCHANGED <<connVars, unitVars, fwVars, routeVars, headerVars, serverVars, handlerVars>>

PathNext == BuildPath

PathInit ==
    ConnInit /\ PathStart /\ RouteIdle /\ HeaderIdle /\ ServerIdle /\ UnitIdle /\ RespIdle /\ FilesIdle

PathSpec == PathInit /\ [][PathNext]_vars

-----------------------------------------------------------------------------
(* The matchers (router/matcher): patterns and targets are strings.  A       *)
(* handler is known by the number of the add_route call that registered it. *)

Some(x) == [tag |-> "Some", v |-> x]

ends_with(s, x) == Len(x) <= Len(s) /\ SubSeq(s, Len(s) - Len(x) + 1, Len(s)) = x

has_prefix(s, x) == Len(x) <= Len(s) /\ SubSeq(s, 1, Len(x)) = x

\* str::strip_prefix
strip_prefix(s, x) ==
    IF has_prefix(s, x) THEN Some(SubSeq(s, Len(x) + 1, Len(s))) ELSE None

\* str::rsplit_once("/"): the text before and after the last `/`
rsplit_once(s) ==
    LET at == {i \in 1..Len(s) : SubSeq(s, i, i) = "/"}
        i == CHOOSE k \in at : \A j \in at : j <= k
    IN  IF at = {} THEN None
        ELSE Some([l |-> SubSeq(s, 1, i - 1), r |-> SubSeq(s, i + 1, Len(s))])

\* the characters of patterns and targets in the order of their bytes
ByteOrder == "/:abcdefghijklmnopqrstuvwxyz"
Rank(ch) == CHOOSE i \in 1..Len(ByteOrder) : SubSeq(ByteOrder, i, i) = ch

\* String::cmp gives Less: the order of strings by bytes
Less(a, b) ==
    \E i \in 1..Len(b) :
        /\ i <= Len(a) + 1
        /\ SubSeq(a, 1, i - 1) = SubSeq(b, 1, i - 1)
        /\ \/ i = Len(a) + 1
           \/ Rank(SubSeq(a, i, i)) < Rank(SubSeq(b, i, i))

\* Match::new
Match(pattern, handler) == [pattern |-> pattern, handler |-> handler]

\* HashMap::insert
Put(m, key, value) ==
    [k \in DOMAIN m \cup {key} |-> IF k = key THEN value ELSE m[k]]

\* Exact::add_route
Exact_add_route(exact, pattern, handler) == Put(exact, pattern, handler)

\* Exact::pattern_match
Exact_pattern_match(exact, target) ==
    IF target \in DOMAIN exact
    THEN Some(Match(target, exact[target]))
    ELSE None

\* Dynamic::add_route
Dynamic_add_route(dynamic, prefix, pattern, handler) ==
    Put(dynamic, prefix, Match(pattern, handler))

\* Dynamic_pattern_match with the bug of taking any target that starts with
\* a registered prefix and `/`
Dynamic_pattern_match_prefix(dynamic, target) ==
    LET ks == {k \in DOMAIN dynamic : has_prefix(target, k \o "/")}
        k == CHOOSE x \in ks : TRUE
    IN  IF ks = {} THEN None
        ELSE Some([m |-> dynamic[k], param |-> SubSeq(target, Len(k) + 2, Len(target))])

\* Dynamic_pattern_match with the bug of accepting an empty parameter
Dynamic_pattern_match_emptyparam(dynamic, target) ==
    LET sp == rsplit_once(target)
    IN  IF sp = None THEN None
        ELSE IF sp.v.l \in DOMAIN dynamic
             THEN Some([m |-> dynamic[sp.v.l], param |-> sp.v.r])
        ELSE None

\* Dynamic::pattern_match
Dynamic_pattern_match(dynamic, target) ==
    LET sp == rsplit_once(target)
    IN  IF sp = None THEN None
        ELSE IF sp.v.r = "" THEN None
        ELSE IF sp.v.l \in DOMAIN dynamic
             THEN Some([m |-> dynamic[sp.v.l], param |-> sp.v.r])
        ELSE None

\* Subtree_add_route with the bug of a list left in registration order
Subtree_add_route_unsorted(subtree, pattern, handler) ==
    Append(subtree, Match(pattern, handler))

\* Subtree::add_route: push, then a stable sort by pattern, descending
Subtree_add_route(subtree, pattern, handler) ==
    LET before == {i \in 1..Len(subtree) : ~Less(subtree[i].pattern, pattern)}
        k == Cardinality(before)
    IN  SubSeq(subtree, 1, k) \o <<Match(pattern, handler)>>
            \o SubSeq(subtree, k + 1, Len(subtree))

\* Subtree_pattern_match with the bug of the whole target as parameter
Subtree_pattern_match_whole(subtree, target) ==
    LET hits == {i \in 1..Len(subtree) : has_prefix(target, subtree[i].pattern)}
        i == CHOOSE k \in hits : \A j \in hits : k <= j
    IN  IF hits = {} THEN None
        ELSE Some([m |-> subtree[i], param |-> target])

\* Subtree::pattern_match: the first pattern the target starts with
Subtree_pattern_match(subtree, target) ==
    LET hits == {i \in 1..Len(subtree) : has_prefix(target, subtree[i].pattern)}
        i == CHOOSE k \in hits : \A j \in hits : k <= j
    IN  IF hits = {} THEN None
        ELSE Some([m |-> subtree[i],
                   param |-> strip_prefix(target, subtree[i].pattern).v])

\* Chain_add_route with the bug of the earlier router, which drops the `/`
\* at the end of a pattern and has no subtree patterns
Chain_add_route_trimmed(chain, pattern, handler) ==
    IF pattern = "/"
    THEN [chain EXCEPT !.exact = Exact_add_route(@, pattern, handler)]
    ELSE LET trimmed == IF ends_with(pattern, "/")
                        THEN SubSeq(pattern, 1, Len(pattern) - 1) ELSE pattern
             kp == rsplit_once(trimmed).v
         IN  IF has_prefix(kp.r, ":")
             THEN [chain EXCEPT !.dynamic = Dynamic_add_route(@, kp.l, trimmed, handler)]
             ELSE [chain EXCEPT !.exact = Exact_add_route(@, trimmed, handler)]

\* Chain::add_route
Chain_add_route(chain, pattern, handler) ==
    IF pattern = "/"
    THEN [chain EXCEPT !.exact = Exact_add_route(@, pattern, handler)]
    ELSE IF ends_with(pattern, "/")
    THEN [chain EXCEPT !.subtree = Subtree_add_route(@, pattern, handler)]
    ELSE LET kp == rsplit_once(pattern).v
         IN  IF has_prefix(kp.r, ":")
             THEN [chain EXCEPT !.dynamic = Dynamic_add_route(@, kp.l, pattern, handler)]
             ELSE [chain EXCEPT !.exact = Exact_add_route(@, pattern, handler)]

\* Chain_pattern_match with the bug of trying the dynamic patterns first
Chain_pattern_match_dynfirst(chain, target) ==
    LET e == Exact_pattern_match(chain.exact, target)
        d == Dynamic_pattern_match(chain.dynamic, target)
        t == Subtree_pattern_match(chain.subtree, target)
    IN  IF d # None THEN Some([m |-> d.v.m, param |-> Some(d.v.param)])
        ELSE IF e # None THEN Some([m |-> e.v, param |-> None])
        ELSE IF t # None THEN Some([m |-> t.v.m, param |-> Some(t.v.param)])
        ELSE None

\* Chain::pattern_match: the match and the parameter, if any
Chain_pattern_match(chain, target) ==
    LET e == Exact_pattern_match(chain.exact, target)
        d == Dynamic_pattern_match(chain.dynamic, target)
        t == Subtree_pattern_match(chain.subtree, target)
    IN  IF e # None THEN Some([m |-> e.v, param |-> None])
        ELSE IF d # None THEN Some([m |-> d.v.m, param |-> Some(d.v.param)])
        ELSE IF t # None THEN Some([m |-> t.v.m, param |-> Some(t.v.param)])
        ELSE None

\* the patterns routes are registered under and the targets of requests
Patterns == {"/", "/a", "/a/:v", "/a/:w", "/a/", "/a/b/", "/a/b", "/ab/"}
Targets == {"/", "/a", "/a/", "/a/b", "/a/b/", "/a/b/c", "/a/x/", "/ab", "/ab/c",
            "/b", "/b/c"}

\* the assertions of add_route: the pattern starts with `/` (chain.rs), an
\* exact pattern is `/` or does not end with `/` (exact.rs), the prefix of
\* a dynamic pattern does not end with `/` (dynamic.rs), a subtree pattern
\* is not `/` and ends with `/` (subtree.rs).  Chain's classification makes
\* the exact and the subtree assertion true; a failed assertion panics
\* before anything is stored.
add_route_asserts(pattern) ==
    /\ has_prefix(pattern, "/")
    /\ IF pattern = "/" \/ ~ends_with(pattern, "/")
       THEN LET kp == rsplit_once(pattern)
            IN  (kp # None /\ has_prefix(kp.v.r, ":")) => ~ends_with(kp.v.l, "/")
       ELSE pattern # "/" /\ ends_with(pattern, "/")

Panicked == dispatch # None /\ dispatch.op = "panic"

\* chain.add_route on a chain of its own, which is kept in the place of
\* the chain of Get
ChainAddRoute(pattern) ==
    /\ dispatch = None
    /\ routes.n < MaxRoutes
    /\ IF add_route_asserts(pattern)
       THEN /\ routes' = [n |-> routes.n + 1,
                          chain |-> [routes.chain EXCEPT !["Get"] =
                                        Chain_add_route(@, pattern, routes.n + 1)]]
            /\ UNCHANGED dispatch
       ELSE /\ dispatch' = [op |-> "panic", pattern |-> pattern]
            /\ UNCHANGED routes
    /\ UNCHANGED <<connVars, unitVars, fwVars, pathVars, headerVars, serverVars, handlerVars>>

\* a target is matched against that chain, and against each of its
\* matchers
MatchTarget(target) ==
    /\ ~Panicked
    /\ dispatch' = [op |-> "match", method |-> "Get", target |-> target,
                    exact |-> Exact_pattern_match(routes.chain["Get"].exact, target),
                    dynamic |-> Dynamic_pattern_match(routes.chain["Get"].dynamic, target),
                    subtree |-> Subtree_pattern_match(routes.chain["Get"].subtree, target),
                    res |-> Chain_pattern_match(routes.chain["Get"], target)]
    /\ UNCHANGED routes
    /\ UNCHANGED <<connVars, unitVars, fwVars, pathVars, headerVars, serverVars, handlerVars>>

ChainNext ==
    \/ \E pattern \in Patterns : ChainAddRoute(pattern)
    \/ \E target \in Targets : MatchTarget(target)

ChainSpec == Init /\ [][ChainNext]_vars

\* routes are registered under patterns of every shape, those with an
\* empty segment included
ShapePatterns == Patterns \cup {"/:v", "//", "//:v", "/a//:v"}

ShapeNext == \E pattern \in ShapePatterns : ChainAddRoute(pattern)

ShapeSpec == Init /\ [][ShapeNext]_vars

-----------------------------------------------------------------------------
(* The router: one chain for each method.  The file of the router that      *)
(* lib.rs uses (add_route with a method, dispatch by method) is not among   *)
(* the sources; router.rs and router/mod.rs are earlier routers without     *)
(* methods that do not fit the matchers above.  Router_add_route and        *)
(* Router_handle follow the description of the router; the method, the      *)
(* response writer and the chains are the code's.                           *)

\* enum HttpMethod, in the order of its discriminants
HttpMethods == <<"Get", "Post">>

\* char::to_lowercase for each letter
LowerOf ==
    [ch \in {SubSeq(Upper \o Lower, i, i) : i \in 1..Len(Upper \o Lower)} |->
        IF \E i \in 1..Len(Upper) : SubSeq(Upper, i, i) = ch
        THEN LET i == CHOOSE k \in 1..Len(Upper) : SubSeq(Upper, k, k) = ch
             IN  SubSeq(Lower, i, i)
        ELSE ch]

\* str::to_lowercase of a method token
RECURSIVE token_to_lowercase(_)
token_to_lowercase(str) ==
    IF str = "" THEN ""
    ELSE (IF SubSeq(str, 1, 1) \in DOMAIN LowerOf THEN LowerOf[SubSeq(str, 1, 1)]
          ELSE SubSeq(str, 1, 1)) \o token_to_lowercase(SubSeq(str, 2, Len(str)))

\* TryFrom<&str> for HttpMethod with the bug of taking every other token
\* for Get
HttpMethod_try_from_default(value) ==
    IF token_to_lowercase(value) = "post" THEN Some("Post") ELSE Some("Get")

\* TryFrom<&str> for HttpMethod
HttpMethod_try_from(value) ==
    Let(token_to_lowercase(value), LAMBDA v :
        IF v = "get" THEN Some("Get")
        ELSE IF v = "post" THEN Some("Post")
        ELSE None)

\* char::to_uppercase for a letter
UpperChar(ch) ==
    IF \E i \in 1..Len(Lower) : SubSeq(Lower, i, i) = ch
    THEN LET i == CHOOSE k \in 1..Len(Lower) : SubSeq(Lower, k, k) = ch
         IN  SubSeq(Upper, i, i)
    ELSE ch

\* str::to_uppercase
RECURSIVE to_uppercase(_)
to_uppercase(str) ==
    IF str = "" THEN ""
    ELSE UpperChar(SubSeq(str, 1, 1)) \o to_uppercase(SubSeq(str, 2, Len(str)))

\* join(", ")
RECURSIVE join_comma(_)
join_comma(strs) ==
    IF strs = <<>> THEN ""
    ELSE IF Len(strs) = 1 THEN strs[1]
    ELSE strs[1] \o ", " \o join_comma(Tail(strs))

\* ResponseWriter::new_empty
new_empty == [status_code |-> None, reason_phrase |-> None, headers |-> <<>>, body |-> ""]

\* ReasonPhrase::as_str of the phrases the program uses, by status code
ReasonPhrases ==
    [code \in {200, 201, 400, 404, 405, 500} |->
        CASE code = 200 -> "OK"
          [] code = 201 -> "Created"
          [] code = 400 -> "Bad Request"
          [] code = 404 -> "Not Found"
          [] code = 405 -> "Method Not Allowed"
          [] code = 500 -> "Internal Server Error"]

\* ResponseWriter::set_reason_phrase, by the status code of the phrase
set_reason_phrase(rw, status_code) ==
    [rw EXCEPT !.status_code = Some(status_code),
               !.reason_phrase = Some(ReasonPhrases[status_code])]

\* add_header with the bug of a header pushed whether or not its name is there
add_header_push(rw, k, v) == [rw EXCEPT !.headers = Append(@, <<k, v>>)]

\* ResponseWriter::add_header
add_header(rw, k, v) ==
    IF \E i \in 1..Len(rw.headers) : rw.headers[i][1] = k
    THEN LET i == CHOOSE j \in 1..Len(rw.headers) :
                      /\ rw.headers[j][1] = k
                      /\ \A x \in 1..j - 1 : rw.headers[x][1] # k
         IN  [rw EXCEPT !.headers[i] = <<k, v>>]
    ELSE [rw EXCEPT !.headers = Append(@, <<k, v>>)]

\* add_allow_header with the bug of method names left as they print
add_allow_header_asis(rw, http_methods) ==
    add_header(rw, "Allow", join_comma(http_methods))

\* ResponseWriter::add_allow_header
add_allow_header(rw, http_methods) ==
    add_header(rw, "Allow",
               join_comma([i \in 1..Len(http_methods) |-> to_uppercase(http_methods[i])]))

\* the methods other than m whose chain matches the target, in the order
\* of the methods
OtherMethods(table, m, target) ==
    LET hit(x) == x # m /\ Chain_pattern_match(table.chain[x], target) # None
    IN  IF hit("Get") /\ hit("Post") THEN <<"Get", "Post">>
        ELSE IF hit("Get") THEN <<"Get">>
        ELSE IF hit("Post") THEN <<"Post">>
        ELSE <<>>

\* Router::add_route: the pattern goes to the chain of the method
Router_add_route(table, method, pattern) ==
    [n |-> table.n + 1,
     chain |-> [table.chain EXCEPT ![method] = Chain_add_route(@, pattern, table.n + 1)]]

\* Router::handle: the response writer, the parameter set on the request
\* and the handler that was invoked
Router_handle(table, token, target) ==
    Let(HttpMethod_try_from(token), LAMBDA method :
        IF method = None
        THEN [rw |-> set_reason_phrase(new_empty, 400), param |-> None,
              handler |-> None, matched |-> FALSE]
        ELSE Let(Chain_pattern_match(table.chain[method.v], target), LAMBDA hit :
             IF hit # None
             THEN [rw |-> new_empty, param |-> hit.v.param,
                   handler |-> Some(hit.v.m.handler), matched |-> TRUE]
             ELSE Let(OtherMethods(table, method.v, target), LAMBDA others :
                  IF others # <<>>
                  THEN [rw |-> add_allow_header(set_reason_phrase(new_empty, 405), others),
                        param |-> None, handler |-> None, matched |-> TRUE]
                  ELSE [rw |-> set_reason_phrase(new_empty, 404), param |-> None,
                        handler |-> None, matched |-> TRUE])))

\* the routes, method tokens and targets the router is tried with
RouterPatterns == {"/a", "/a/:v", "/a/"}
RouterTargets == {"/a", "/a/", "/a/b", "/b"}
Tokens == {"GET", "Post", "PUT", "gets"}

\* add_route before the server runs
AddRoute(method, pattern) ==
    /\ dispatch = None
    /\ routes.n < MaxRoutes
    /\ IF add_route_asserts(pattern)
       THEN routes' = Router_add_route(routes, method, pattern) /\ UNCHANGED dispatch
       ELSE dispatch' = [op |-> "panic", pattern |-> pattern] /\ UNCHANGED routes
    /\ UNCHANGED <<connVars, unitVars, fwVars, pathVars, headerVars, serverVars, handlerVars>>

\* the router handles a request
Handle(token, target) ==
    /\ ~Panicked
    /\ dispatch' = [op |-> "handle", token |-> token, target |-> target,
                    out |-> Router_handle(routes, token, target)]
    /\ UNCHANGED routes
    /\ UNCHANGED <<connVars, unitVars, fwVars, pathVars, headerVars, serverVars, handlerVars>>

RouterNext ==
    \/ \E method \in {"Get", "Post"}, pattern \in RouterPatterns : AddRoute(method, pattern)
    \/ \E token \in Tokens, target \in RouterTargets : Handle(token, target)

RouterSpec == Init /\ [][RouterNext]_vars

-----------------------------------------------------------------------------
(* Requests with generated header lines, read by the worker above.         *)

\* the names and the value texts of the generated header lines
Names == {"Set-Cookie", "set-cookie", "Accept"}
ValueTexts == {" a", " b", " a, b", "a ,b "}
HeaderLines == {[name |-> n, text |-> t] : n \in Names, t \in ValueTexts}

\* the wire form of a generated header line, without its CRLF
WireLine(l) == Bytes(l.name) \o Bytes(":") \o Bytes(l.text)

\* the client is about to write a GET with at most MaxLines header lines
HeaderStart ==
    hd \in {[lines |-> ls] : ls \in UNION {[1..n -> HeaderLines] : n \in 0..MaxLines}}

\* the client writes that request
SendHeaders ==
    /\ hd # None
    /\ client = "open"
    /\ result = "none"
    /\ sent = <<>>
    /\ sent' = <<"headers">>
    /\ inbox' = inbox \o Encode(GetRoot,
                                [i \in 1..Len(hd.lines) |-> WireLine(hd.lines[i])], <<>>)
    /\ UNCHANGED <<client, pc, limit, request_line, mm, r, reqs, out, w,
                   read_result, conn_ctrl, result, used, file, fw, restVars>>

HeaderNext == Worker \/ SendHeaders

HeaderInit ==
    ConnInit /\ PathIdle /\ RouteIdle /\ HeaderStart /\ ServerIdle /\ UnitIdle /\ RespIdle /\ FilesIdle

HeaderSpec == HeaderInit /\ [][HeaderNext]_vars

-----------------------------------------------------------------------------
(* The accept loop and its workers (Server::run).  Of a connection the      *)
(* model keeps what decides whether its worker moves: the client writes     *)
(* one request and closes ("request") or writes nothing and keeps the       *)
(* connection open ("stall"); the handler returns ("returns") or never      *)
(* does ("blocks").  Connections are numbered in the order in which they    *)
(* are made, which is the order in which the listener yields them.          *)

\* a client connects; the connection waits in the listener's queue
Connect(c, client_, handler) ==
    /\ conns[c].st = "none"
    /\ \A d \in 1..(c - 1) : conns[d].st # "none"
    /\ conns' = [conns EXCEPT ![c] = [@ EXCEPT !.st = "pending", !.client = client_,
                                                !.handler = handler]]
    /\ backlog' = Append(backlog, c)
    /\ UNCHANGED <<connVars, unitVars, fwVars, pathVars, routeVars, headerVars, handlerVars>>

\* Accept with the bug of a loop that calls handle_connection itself: it
\* takes the next connection when the one before has ended
Accept_inline ==
    /\ backlog # <<>>
    /\ \A c \in 1..MaxConns : conns[c].st # "running"
    /\ conns' = [conns EXCEPT ![Head(backlog)] =
                     [@ EXCEPT !.st = "running", !.pc = "request_line"]]
    /\ backlog' = Tail(backlog)
    /\ UNCHANGED <<connVars, unitVars, fwVars, pathVars, routeVars, headerVars, handlerVars>>

\* Server::run, one turn of the loop: incoming() yields the next
\* connection and s.spawn starts its worker; the loop does not wait for it
Accept ==
    /\ backlog # <<>>
    /\ conns' = [conns EXCEPT ![Head(backlog)] =
                     [@ EXCEPT !.st = "running", !.pc = "request_line"]]
    /\ backlog' = Tail(backlog)
    /\ UNCHANGED <<connVars, unitVars, fwVars, pathVars, routeVars, headerVars, handlerVars>>

\* handle_request of the worker of c, the read: a request is there; or
\* the client has closed after its request (end of file, the worker
\* ends); or nothing comes, the read timeout fires, 400 is written and
\* the worker ends
ConnRead(c) ==
    /\ conns[c].st = "running"
    /\ conns[c].pc = "request_line"
    /\ conns' = [conns EXCEPT ![c] =
           IF conns[c].client = "stall"
           THEN [@ EXCEPT !.st = "ended", !.pc = "done", !.out = Append(@, 400)]
           ELSE IF conns[c].out = <<>>
           THEN [@ EXCEPT !.pc = "handle"]
           ELSE [@ EXCEPT !.st = "ended", !.pc = "done"]]
    /\ UNCHANGED backlog
    /\ UNCHANGED <<connVars, unitVars, fwVars, pathVars, routeVars, headerVars, handlerVars>>

\* handle_request of the worker of c, from handler.handle on: the handler
\* returns and the response is written; a handler that blocks never gets
\* here
ConnHandle(c) ==
    /\ conns[c].st = "running"
    /\ conns[c].pc = "handle"
    /\ conns[c].handler = "returns"
    /\ conns' = [conns EXCEPT ![c] = [@ EXCEPT !.pc = "request_line",
                                                !.out = Append(@, 200)]]
    /\ UNCHANGED backlog
    /\ UNCHANGED <<connVars, unitVars, fwVars, pathVars, routeVars, headerVars, handlerVars>>

\* the worker thread of connection c
ConnWorker(c) == ConnRead(c) \/ ConnHandle(c)

\* a client and the handler its request reaches; a client that writes
\* nothing reaches none
ConnKinds == {<<"request", "returns">>, <<"request", "blocks">>, <<"stall", "none">>}

ServerNext ==
    \/ \E c \in 1..MaxConns, k \in ConnKinds : Connect(c, k[1], k[2])
    \/ Accept
    \/ \E c \in 1..MaxConns : ConnWorker(c)

\* the main thread and every worker thread are scheduled
ServerSpec ==
    /\ Init
    /\ [][ServerNext]_vars
    /\ WF_vars(Accept)
    /\ \A c \in 1..MaxConns : WF_vars(ConnWorker(c))

-----------------------------------------------------------------------------
(* The response writer (response_writer.rs) and the gzip middleware         *)
(* (middleware/gzip_compressor.rs).  Header names and values, bodies and    *)
(* the serialised head of a response are strings.                           *)

\* usize::to_string
RECURSIVE usize_to_string(_)
usize_to_string(n) ==
    IF n < 10 THEN SubSeq(Digits, n + 1, n + 1)
    ELSE usize_to_string(n \div 10) \o SubSeq(Digits, (n % 10) + 1, (n % 10) + 1)

\* ResponseWriter::get_content_type_header
get_content_type_header(rw) ==
    LET hits == {i \in 1..Len(rw.headers) :
                    token_to_lowercase(rw.headers[i][1]) = "content-type"}
    IN  IF hits = {} THEN None
        ELSE Some(rw.headers[CHOOSE i \in hits : \A j \in hits : i <= j][2])

\* ResponseWriter::add_content_encoding_header
add_content_encoding_header(rw, content_encoding) ==
    add_header(rw, "Content-Encoding", content_encoding)

\* ResponseWriter::add_content_type_header
add_content_type_header(rw, content_type) == add_header(rw, "Content-Type", content_type)

\* ResponseWriter::add_content_length_header
add_content_length_header(rw) ==
    add_header(rw, "Content-Length", usize_to_string(Len(rw.body)))

\* set_body with the bug of a Content-Length that is kept once it is there
set_body_stale(rw, body, content_type) ==
    Let([rw EXCEPT !.body = body], LAMBDA rw1 :
    Let(add_content_type_header(rw1, content_type), LAMBDA rw2 :
        IF \E i \in 1..Len(rw2.headers) : rw2.headers[i][1] = "Content-Length"
        THEN rw2
        ELSE add_content_length_header(rw2)))

\* ResponseWriter::set_body
set_body(rw, body, content_type) ==
    add_content_length_header(
        add_content_type_header([rw EXCEPT !.body = body], content_type))

\* ResponseWriter::set_body_str
set_body_str(rw, body) == set_body(rw, body, "text/plain")

\* the header lines of write()
RECURSIVE header_lines(_)
header_lines(headers) ==
    IF headers = <<>> THEN ""
    ELSE headers[1][1] \o ": " \o headers[1][2] \o "\r\n" \o header_lines(Tail(headers))

\* the status line of write()
status_line(rw) ==
    "HTTP/1.1 " \o usize_to_string(rw.status_code.v)
        \o (IF rw.reason_phrase # None THEN " " \o rw.reason_phrase.v ELSE "")
        \o "\r\n"

\* write with the bug of a 404 serialised like every other response
write_headers_always(rw) ==
    IF rw.status_code = None THEN [panic |-> TRUE, head |-> "", body |-> ""]
    ELSE [panic |-> FALSE,
          head  |-> status_line(rw) \o header_lines(rw.headers) \o "\r\n",
          body  |-> rw.body]

\* ResponseWriter::write: the bytes of the response, as the text up to and
\* including the blank line and the body bytes that follow it; the unwrap
\* of a status that was never set panics
write(rw) ==
    IF rw.status_code = None THEN [panic |-> TRUE, head |-> "", body |-> ""]
    ELSE IF rw.status_code.v = 404
    THEN [panic |-> FALSE, head |-> status_line(rw) \o "\r\n", body |-> ""]
    ELSE [panic |-> FALSE,
          head  |-> status_line(rw) \o header_lines(rw.headers) \o "\r\n",
          body  |-> rw.body]

\* GzEncoder::new(body, Compression::fast()) read to its end.  The encoder
\* is a library; its output is kept as what it consists of: the header of
\* the gzip member, the deflate stream of the body and the trailer.
GzEncoder(body) == "<gzip-header>" \o "<deflate:" \o body \o ">" \o "<crc32,isize>"

\* Headers::get_accept_encoding
get_accept_encoding(h) == get_iter(h, Bytes("accept-encoding"))

\* gzip_compressor with the bug of comparing the encoding in any case
gzip_compressor_anycase(rw, headers) ==
    IF Len(rw.body) = 0 THEN rw
    ELSE Let(get_content_type_header(rw), LAMBDA content_type :
         Let(get_accept_encoding(headers), LAMBDA encodings :
             IF content_type = None THEN rw
             ELSE IF encodings.some /\ \E i \in 1..Len(encodings.it) :
                                          to_lowercase(encodings.it[i]) = Bytes("gzip")
             THEN add_content_encoding_header(
                      set_body(rw, GzEncoder(rw.body), content_type.v), "gzip")
             ELSE rw))

\* gzip_compressor::new, the closure after handler.handle has returned
gzip_compressor(rw, headers) ==
    IF Len(rw.body) = 0 THEN rw
    ELSE Let(get_content_type_header(rw), LAMBDA content_type :
         Let(get_accept_encoding(headers), LAMBDA encodings :
             IF content_type = None THEN rw
             ELSE IF encodings.some /\ \E i \in 1..Len(encodings.it) :
                                          encodings.it[i] = Bytes("gzip")
             THEN add_content_encoding_header(
                      set_body(rw, GzEncoder(rw.body), content_type.v), "gzip")
             ELSE rw))

MaxCalls == 3       \* most calls a handler makes on the ResponseWriter

\* the Accept-Encoding lines of a request: the value texts of its lines
AcceptCases == {<<>>, <<"gzip">>, <<"GZIP">>, <<" br, gzip">>, <<"gzip;q=1.0">>,
                <<"br">>, <<"br", "gzip">>}

\* the header map RequestReader::read builds for these lines
RECURSIVE AcceptHeaders(_, _)
AcceptHeaders(m, texts) ==
    IF texts = <<>> THEN m
    ELSE Let(split(Bytes(Head(texts)), ","), LAMBDA parts :
             AcceptHeaders(insert_vector(m, to_lowercase(Bytes("Accept-Encoding")),
                                         [i \in 1..Len(parts) |-> trim(parts[i])]),
                           Tail(texts)))

\* a request has reached a handler, wrapped by the middleware (mw) or not
RespStart ==
    resp \in {[stage |-> "handler", mw |-> b, accept |-> a,
               headers |-> AcceptHeaders(<<>>, a), calls |-> 0,
               w |-> new_empty, inner |-> None, wire |-> None] :
              b \in BOOLEAN, a \in AcceptCases}

\* the handler is running and may call the ResponseWriter once more
Calling == resp # None /\ resp.stage = "handler" /\ resp.calls < MaxCalls

\* the handler calls w.set_reason_phrase
SetReasonPhrase(status_code) ==
    /\ Calling
    /\ resp' = [resp EXCEPT !.w = set_reason_phrase(@, status_code), !.calls = @ + 1]
    /\ UNCHANGED <<connVars, unitVars, fwVars, pathVars, routeVars, headerVars, serverVars, fsys, fh>>

\* the handler calls w.set_body_str
SetBodyStr(body) ==
    /\ Calling
    /\ resp' = [resp EXCEPT !.w = set_body_str(@, body), !.calls = @ + 1]
    /\ UNCHANGED <<connVars, unitVars, fwVars, pathVars, routeVars, headerVars, serverVars, fsys, fh>>

\* the handler calls w.set_body
SetBody(body, content_type) ==
    /\ Calling
    /\ resp' = [resp EXCEPT !.w = set_body(@, body, content_type), !.calls = @ + 1]
    /\ UNCHANGED <<connVars, unitVars, fwVars, pathVars, routeVars, headerVars, serverVars, fsys, fh>>

\* the handler calls w.add_allow_header
AddAllowHeader(http_methods) ==
    /\ Calling
    /\ resp' = [resp EXCEPT !.w = add_allow_header(@, http_methods), !.calls = @ + 1]
    /\ UNCHANGED <<connVars, unitVars, fwVars, pathVars, routeVars, headerVars, serverVars, fsys, fh>>

\* the handler calls w.add_content_encoding_header
AddContentEncodingHeader(content_encoding) ==
    /\ Calling
    /\ resp' = [resp EXCEPT !.w = add_content_encoding_header(@, content_encoding),
                            !.calls = @ + 1]
    /\ UNCHANGED <<connVars, unitVars, fwVars, pathVars, routeVars, headerVars, serverVars, fsys, fh>>

\* the handler returns; behind the middleware the closure goes on
HandlerReturns ==
    /\ resp # None
    /\ resp.stage = "handler"
    /\ resp' = [resp EXCEPT !.stage = "returned",
                            !.inner = resp.w,
                            !.w = IF resp.mw THEN gzip_compressor(resp.w, resp.headers)
                                  ELSE resp.w]
    /\ UNCHANGED <<connVars, unitVars, fwVars, pathVars, routeVars, headerVars, serverVars, fsys, fh>>

\* handle_request: let response = w.write()
WriteResponse ==
    /\ resp # None
    /\ resp.stage = "returned"
    /\ resp' = [resp EXCEPT !.stage = "written", !.wire = write(resp.w)]
    /\ UNCHANGED <<connVars, unitVars, fwVars, pathVars, routeVars, headerVars, serverVars, fsys, fh>>

ResponseNext ==
    \/ \E status_code \in {200, 400, 404} : SetReasonPhrase(status_code)
    \/ \E body \in {"", "hi"} : SetBodyStr(body)
    \/ SetBody("ab", "application/octet-stream")
    \/ AddAllowHeader(<<"Get">>)
    \/ AddContentEncodingHeader("identity")
    \/ HandlerReturns
    \/ WriteResponse

ResponseInit ==
    ConnInit /\ PathIdle /\ RouteIdle /\ HeaderIdle /\ ServerIdle /\ UnitIdle /\ RespStart /\ FilesIdle

ResponseSpec == ResponseInit /\ [][ResponseNext]_vars

-----------------------------------------------------------------------------
(* The file handlers (file_server.rs) on a file system.  A node of the file *)
(* system is a directory or a file with its content, under the components   *)
(* of its cleaned path; the working directory, its parent and the root      *)
(* always exist.                                                            *)

\* the key of a cleaned path: its components, none for `.`
Key(p) == LET cs == components(p) IN IF cs = <<".">> THEN <<>> ELSE cs

AlwaysDirs == {<<>>, <<"..">>, <<"/">>}

Dir == [kind |-> "dir", data |-> ""]
File(data) == [kind |-> "file", data |-> data]

IsDir(nodes, k) == k \in AlwaysDirs \/ (k \in DOMAIN nodes /\ nodes[k].kind = "dir")
IsFile(nodes, k) == k \in DOMAIN nodes /\ nodes[k].kind = "file"

\* the paths above k, and k itself
Above(k) == {SubSeq(k, 1, i) : i \in 0..(Len(k) - 1)}
UpTo(k) == {SubSeq(k, 1, i) : i \in 1..Len(k)}

\* Path::parent of a cleaned path
parent(p) ==
    LET cs == components(p)
    IN  IF cs = <<>> \/ cs[Len(cs)] = "/" THEN None
        ELSE Some(SubSeq(cs, 1, Len(cs) - 1))

\* the nodes with one more or another node at k
WithNode(nodes, k, node) ==
    [x \in DOMAIN nodes \cup {k} |-> IF x = k THEN node ELSE nodes[x]]

\* fs::read; denied: the operating system refuses the call
fs_read(nodes, k, denied) ==
    IF denied THEN [ok |-> FALSE, kind |-> "PermissionDenied", data |-> ""]
    ELSE IF IsFile(nodes, k) THEN [ok |-> TRUE, kind |-> "", data |-> nodes[k].data]
    ELSE IF IsDir(nodes, k) THEN [ok |-> FALSE, kind |-> "IsADirectory", data |-> ""]
    ELSE IF \E a \in Above(k) : IsFile(nodes, a)
    THEN [ok |-> FALSE, kind |-> "NotADirectory", data |-> ""]
    ELSE [ok |-> FALSE, kind |-> "NotFound", data |-> ""]

\* fs::create_dir_all: every missing directory down to k is made, unless
\* a file is in the way
create_dir_all(nodes, k, denied) ==
    IF IsDir(nodes, k) THEN [ok |-> TRUE, nodes |-> nodes]
    ELSE IF denied \/ \E a \in UpTo(k) : IsFile(nodes, a)
    THEN [ok |-> FALSE, nodes |-> nodes]
    ELSE [ok |-> TRUE,
          nodes |-> [x \in DOMAIN nodes \cup (UpTo(k) \ AlwaysDirs) |->
                        IF x \in DOMAIN nodes THEN nodes[x] ELSE Dir]]

\* fs::write: the file is created or replaced, in an existing directory
fs_write(nodes, k, contents, denied) ==
    IF denied \/ IsDir(nodes, k) \/ k = <<>> \/ ~IsDir(nodes, SubSeq(k, 1, Len(k) - 1))
    THEN [ok |-> FALSE, nodes |-> nodes]
    ELSE [ok |-> TRUE, nodes |-> WithNode(nodes, k, File(contents))]

\* new_file_retriever with the bug of 404 for every read error
file_retriever_notfound(base_path, nodes, param, denied) ==
    IF param = None THEN set_reason_phrase(new_empty, 400)
    ELSE Let(build_path(base_path, param.v), LAMBDA built :
         IF ~built.ok THEN set_reason_phrase(new_empty, 400)
         ELSE Let(fs_read(nodes, Key(built.path), denied), LAMBDA contents :
              IF contents.ok
              THEN set_body(set_reason_phrase(new_empty, 200), contents.data,
                            "application/octet-stream")
              ELSE set_reason_phrase(new_empty, 404)))

\* new_file_retriever, the handler: the ResponseWriter it leaves
file_retriever(base_path, nodes, param, denied) ==
    IF param = None THEN set_reason_phrase(new_empty, 400)
    ELSE Let(build_path(base_path, param.v), LAMBDA built :
         IF ~built.ok THEN set_reason_phrase(new_empty, 400)
         ELSE Let(fs_read(nodes, Key(built.path), denied), LAMBDA contents :
              IF contents.ok
              THEN set_body(set_reason_phrase(new_empty, 200), contents.data,
                            "application/octet-stream")
              ELSE IF contents.kind = "NotFound"
              THEN set_reason_phrase(new_empty, 404)
              ELSE set_reason_phrase(new_empty, 500)))

\* outcome of the writer: the ResponseWriter and the file system it leaves;
\* panic: r.get_body().unwrap() found no body
Left(rw, nodes, panic) == [w |-> rw, nodes |-> nodes, panic |-> panic]

\* new_file_writer, the handler; denied names the call the operating
\* system refuses, if any
file_writer(base_path, nodes, param, body, denied) ==
    IF param = None THEN Left(set_reason_phrase(new_empty, 400), nodes, FALSE)
    ELSE Let(build_path(base_path, param.v), LAMBDA built :
         IF ~built.ok THEN Left(set_reason_phrase(new_empty, 400), nodes, FALSE)
         ELSE Let(parent(built.path), LAMBDA par :
              Let(IF par = None THEN [ok |-> TRUE, nodes |-> nodes]
                  ELSE create_dir_all(nodes, IF par.v = <<".">> THEN <<>> ELSE par.v,
                                      denied = "create_dir_all"), LAMBDA made :
                  IF ~made.ok THEN Left(set_reason_phrase(new_empty, 500), nodes, FALSE)
                  ELSE IF body = None THEN Left(new_empty, made.nodes, TRUE)
                  ELSE Let(fs_write(made.nodes, Key(built.path), body.v, denied = "write"),
                           LAMBDA written :
                           IF ~written.ok
                           THEN Left(set_reason_phrase(new_empty, 500), made.nodes, FALSE)
                           ELSE Left(set_reason_phrase(new_empty, 201),
                                     written.nodes, FALSE)))))

\* the directories the handlers are mounted on, the parameters the router
\* hands them and the bodies of the requests
BasePaths == {Path(FALSE, <<"d">>), Path(FALSE, <<".">>)}
Params == {None, Some(Path(TRUE, <<"f">>))}
              \cup {Some(Path(FALSE, segs)) :
                       segs \in {<<>>, <<"f">>, <<"s">>, <<"s", "f">>, <<"..", "f">>}}
Bodies == {None, Some("x")}

\* the file systems a run starts with, below the directory `pre`
StartNodes(pre) ==
    LET below(k, node) == [x \in {pre \o k} |-> node]
        base == IF pre = <<>> THEN <<>> ELSE [x \in {pre} |-> Dir]
    IN  {<<>>, base,
         WithNode(base, pre \o <<"f">>, File("old")),
         WithNode(base, pre \o <<"s">>, File("old")),
         WithNode(WithNode(base, pre \o <<"s">>, Dir), pre \o <<"s", "f">>, File("old"))}

FilesStart ==
    /\ fsys \in UNION {{[base_path |-> b, nodes |-> n] :
                            n \in StartNodes(IF b.segs = <<".">> THEN <<>> ELSE b.segs)} :
                        b \in BasePaths}
    /\ fh = None

\* a GET reaches the file retriever
Retrieve(param, denied) ==
    /\ fsys # None
    /\ fh' = [op |-> "retrieve", param |-> param, body |-> None, before |-> fsys.nodes,
              denied |-> IF denied THEN "read" ELSE "none", panic |-> FALSE,
              w |-> file_retriever(fsys.base_path, fsys.nodes, param, denied)]
    /\ UNCHANGED fsys
    /\ UNCHANGED <<connVars, unitVars, fwVars, pathVars, routeVars, headerVars, serverVars, resp>>

\* a POST reaches the file writer
WriteFile(param, body, denied) ==
    /\ fsys # None
    /\ \E left \in {file_writer(fsys.base_path, fsys.nodes, param, body, denied)} :
           /\ fh' = [op |-> "write", param |-> param, body |-> body, before |-> fsys.nodes,
                     denied |-> denied, panic |-> left.panic, w |-> left.w]
           /\ fsys' = [fsys EXCEPT !.nodes = left.nodes]
    /\ UNCHANGED <<connVars, unitVars, fwVars, pathVars, routeVars, headerVars, serverVars, resp>>

FilesNext ==
    \/ \E param \in Params, denied \in BOOLEAN : Retrieve(param, denied)
    \/ \E param \in Params, body \in Bodies, denied \in {"none", "create_dir_all", "write"} :
           WriteFile(param, body, denied)

FilesInit ==
    ConnInit /\ PathIdle /\ RouteIdle /\ HeaderIdle /\ ServerIdle /\ UnitIdle /\ RespIdle /\ FilesStart

FilesSpec == FilesInit /\ [][FilesNext]_vars

-----------------------------------------------------------------------------
(* A StreamReader on a source of its own (stream_reader.rs), as the tests   *)
(* of the module use it: the source holds its bytes and then ends (a        *)
(* Cursor) or stays open (a socket).                                        *)

MaxReads == 5       \* most calls made on one StreamReader

\* the bytes of the source and the budgets given to set_limit
Sources == {Bytes("foo\r\n"), Bytes("foo\r\nbar\r\n"), Bytes("ab")}
Budgets == {0, 3, 5}

\* the budget of the Take; after StreamReader::new it is u64::MAX, which is
\* more than the source holds
budget_of(s) == IF s.limit = None THEN ByteLen(s.src) + 1 ELSE s.limit.v

\* StreamReader::new
SrStart ==
    sr \in {[src |-> b, eof |-> e, limit |-> None, log |-> <<>>] :
            b \in Sources, e \in BOOLEAN}

\* an entry of the log of calls: the call, the budget and the source
\* before it, and what it returned
Call(op, s, st, line) ==
    [op |-> op, budget |-> budget_of(s), src |-> s.src, st |-> st, line |-> line]

\* StreamReader::set_limit
SetLimit(l) ==
    /\ sr # None
    /\ Len(sr.log) < MaxReads
    /\ sr' = [sr EXCEPT !.limit = Some(l),
                        !.log = Append(@, Call("set_limit", sr, "Ok", <<>>))]
    /\ UNCHANGED <<connVars, fwVars, pathVars, routeVars, headerVars, serverVars,
                   handlerVars, app>>

\* StreamReader::read_line; the bytes read leave the source and the budget
ReadLine ==
    /\ sr # None
    /\ Len(sr.log) < MaxReads
    /\ \E rl \in {read_line(sr.src, budget_of(sr), sr.eof)} :
           /\ rl.st # "blocked"
           /\ sr' = [sr EXCEPT !.src = DropBytes(sr.src, rl.n),
                               !.limit = IF sr.limit = None THEN None
                                         ELSE Some(sr.limit.v - rl.n),
                               !.log = Append(@, Call("read_line", sr, rl.st, rl.line))]
    /\ UNCHANGED <<connVars, fwVars, pathVars, routeVars, headerVars, serverVars,
                   handlerVars, app>>

ReaderNext ==
    \/ \E l \in Budgets : SetLimit(l)
    \/ ReadLine

ReaderInit ==
    /\ ConnInit /\ PathIdle /\ RouteIdle /\ HeaderIdle /\ ServerIdle /\ RespIdle /\ FilesIdle
    /\ SrStart
    /\ app = None

ReaderSpec == ReaderInit /\ [][ReaderNext]_vars

-----------------------------------------------------------------------------
(* The application (lib.rs): the route table of run(), a parsed request,    *)
(* its dispatch by the router, the handler and the serialised response      *)

\* a byte string as text
RECURSIVE Text(_)
Text(b) ==
    IF b = <<>> THEN ""
    ELSE IF b[1].n = 0 THEN Text(Tail(b))
    ELSE b[1].c \o Text(<<[c |-> b[1].c, n |-> b[1].n - 1]>> \o Tail(b))

\* Path::new of a text: the text split at `/`
RECURSIVE TextSegs(_)
TextSegs(s) ==
    IF s = "" THEN <<>>
    ELSE LET k == IF \E i \in 1..Len(s) : SubSeq(s, i, i) = "/"
                  THEN CHOOSE i \in 1..Len(s) :
                           SubSeq(s, i, i) = "/" /\ \A j \in 1..(i - 1) : SubSeq(s, j, j) # "/"
                  ELSE Len(s) + 1
         IN  (IF k = 1 THEN <<>> ELSE <<SubSeq(s, 1, k - 1)>>)
                 \o (IF k >= Len(s) THEN <<>> ELSE TextSegs(SubSeq(s, k + 1, Len(s))))
PathOf(s) == Path(s # "" /\ SubSeq(s, 1, 1) = "/", TextSegs(s))

\* Headers::get_user_agent
get_user_agent(h) == Headers_get_scalar(h, Bytes("user-agent"))

\* what a handler leaves: the ResponseWriter, the file system, and whether
\* it panicked
Ran(rw, nodes) == [w |-> rw, nodes |-> nodes, panic |-> FALSE]

\* home with the bug of a handler that sets no status
home_silent(rw) == rw

\* home
home(rw) == set_reason_phrase(rw, 200)

\* echo: r.get_param().unwrap() panics without a parameter
echo(rw, param) ==
    IF param = None THEN [w |-> rw, panic |-> TRUE]
    ELSE [w |-> set_reason_phrase(set_body_str(rw, param.v), 200), panic |-> FALSE]

\* user_agent
user_agent(rw, headers) ==
    Let(get_user_agent(headers), LAMBDA ua :
        IF ua.st = "Err" THEN set_reason_phrase(rw, 400)
        ELSE set_reason_phrase(
                 set_body_str(rw, IF ua.st = "Some" THEN Text(ua.v) ELSE ""), 200))

\* the base path of --directory
Directory == Path(FALSE, <<"d">>)

\* run(): the routes in the order of their registration; the file routes
\* exist when --directory was given
Router_new == [n |-> 0, chain |-> [m \in {"Get", "Post"} |-> Chain_new]]
AppRoutes(directory) ==
    LET fixed == Router_add_route(
                     Router_add_route(
                         Router_add_route(Router_new, "Get", "/"),
                         "Get", "/echo/:str"),
                     "Get", "/user-agent")
    IN  IF directory
        THEN Router_add_route(Router_add_route(fixed, "Get", "/files/"), "Post", "/files/")
        ELSE fixed

\* the handler of a registration, called on the writer the router hands it
AppHandle(a, rw, handler, param) ==
    CASE handler = 1 -> Ran(home(rw), a.nodes)
      [] handler = 2 ->
             Let(echo(rw, param), LAMBDA inner :
                 IF inner.panic THEN [w |-> inner.w, nodes |-> a.nodes, panic |-> TRUE]
                 ELSE Ran(gzip_compressor(inner.w, a.headers), a.nodes))
      [] handler = 3 -> Ran(user_agent(rw, a.headers), a.nodes)
      [] handler = 4 ->
             Ran(file_retriever(Directory, a.nodes,
                                IF param = None THEN None ELSE Some(PathOf(param.v)),
                                a.denied = "read"), a.nodes)
      [] handler = 5 ->
             file_writer(Directory, a.nodes,
                         IF param = None THEN None ELSE Some(PathOf(param.v)),
                         a.body, a.denied)

\* the requests the application is given
AppTokens == {"GET", "post", "PUT"}
AppTargets == {"/", "/echo/hi", "/echo/", "/echo", "/user-agent", "/files/f", "/files/../f",
               "/files/", "/nope"}
AppLines == {<<>>, <<[name |-> "User-Agent", text |-> " curl"]>>,
             <<[name |-> "Accept-Encoding", text |-> " br, gzip"]>>,
             <<[name |-> "user-agent", text |-> " a, b"],
               [name |-> "Accept-Encoding", text |-> "gzip"]>>}

\* the header map RequestReader::read builds for header lines
RECURSIVE HeadersOf(_, _)
HeadersOf(m, lines) ==
    IF lines = <<>> THEN m
    ELSE Let(split(Bytes(Head(lines).text), ","), LAMBDA parts :
             HeadersOf(insert_vector(m, to_lowercase(Bytes(Head(lines).name)),
                                     [i \in 1..Len(parts) |-> trim(parts[i])]),
                       Tail(lines)))

AppStart ==
    app \in {[stage |-> "request", directory |-> d, nodes |-> n, denied |-> x,
              token |-> t, target |-> g, headers |-> HeadersOf(<<>>, l), body |-> b,
              out |-> None, w |-> None, wire |-> None] :
             d \in BOOLEAN, n \in StartNodes(<<"d">>), x \in {"none", "read", "write"},
             t \in AppTokens, g \in AppTargets, l \in AppLines, b \in Bodies}

\* Router::handle up to the call of the matched handler
AppDispatch ==
    /\ app # None
    /\ app.stage = "request"
    /\ \E o \in {Router_handle(AppRoutes(app.directory), app.token, app.target)} :
           app' = [app EXCEPT !.stage = IF o.handler = None THEN "handled" ELSE "matched",
                              !.out = Some(o),
                              !.w = Some(o.rw)]
    /\ UNCHANGED <<connVars, fwVars, pathVars, routeVars, headerVars, serverVars,
                   handlerVars, sr>>

\* the matched handler runs
AppHandler ==
    /\ app # None
    /\ app.stage = "matched"
    /\ \E h \in {AppHandle(app, app.w.v, app.out.v.handler.v, app.out.v.param)} :
           app' = [app EXCEPT !.stage = IF h.panic THEN "panicked" ELSE "handled",
                              !.w = Some(h.w),
                              !.nodes = h.nodes]
    /\ UNCHANGED <<connVars, fwVars, pathVars, routeVars, headerVars, serverVars,
                   handlerVars, sr>>

\* handle_request: let response = w.write()
AppWrite ==
    /\ app # None
    /\ app.stage = "handled"
    /\ app' = [app EXCEPT !.stage = "written", !.wire = Some(write(app.w.v))]
    /\ UNCHANGED <<connVars, fwVars, pathVars, routeVars, headerVars, serverVars,
                   handlerVars, sr>>

AppNext == AppDispatch \/ AppHandler \/ AppWrite

AppInit ==
    ConnInit /\ PathIdle /\ RouteIdle /\ HeaderIdle /\ ServerIdle /\ RespIdle /\ FilesIdle
        /\ sr = None /\ AppStart

AppSpec == AppInit /\ [][AppNext]_vars

-----------------------------------------------------------------------------
(* Properties *)

\* the message the worker is reading, or has read last
Current == Messages[sent[Len(reqs)]]

\* C1: on one connection the k-th response written by the handler answers
\* the k-th request read; a request is read only when every earlier request
\* has its response written in full, and a request that was read has exactly
\* one response once the worker has handled it.
C1_ResponsePerRequestInOrder ==
    /\ \A k \in 1..Len(out) :
          out[k].src = "handler" =>
              k <= Len(reqs) /\ out[k].request_line = reqs[k].request_line
    /\ pc \in {"request_line", "headers"} =>
          Len(out) = Len(reqs) /\ \A k \in 1..Len(out) : out[k].ok
    /\ pc = "handle" => Len(out) = Len(reqs) - 1
    /\ pc = "done" /\ result \in {"Ok", "Err"} =>
          Cardinality({k \in 1..Len(out) : out[k].src = "handler"}) = Len(reqs)

\* two different requests were answered, each by its own response
C1_Witness ==
    /\ Len(out) = 2
    /\ out[1].src = "handler" /\ out[2].src = "handler"
    /\ out[1].request_line = Bytes("GET / HTTP/1.1")
    /\ out[2].request_line = Bytes("GET /about HTTP/1.1")
    /\ out[2].ok

\* C2: when the response to a parsed request has been written, the worker
\* closes the connection if one of the values of the request's Connection
\* header is the literal close, and otherwise goes on to read the next
\* request of the connection.
C2_CloseIffConnectionClose ==
    [][(pc = "handle" /\ Len(out') = Len(out) + 1 /\ out'[Len(out')].ok) =>
          IF Current.close
          THEN pc' = "done" /\ result' = "Ok" /\ conn_ctrl' = "Close"
          ELSE pc' = "request_line" /\ result' = "none" /\ conn_ctrl' = "KeepAlive"]_vars

\* Connection: Close was answered and the connection kept, then
\* CONNECTION: keep-alive, close was answered and the connection closed
C2_Witness ==
    /\ sent = <<"upper_close", "list_close">>
    /\ Len(out) = 2 /\ out[2].ok
    /\ pc = "done" /\ result = "Ok" /\ conn_ctrl = "Close"

\* C3: a read that ends in end of file writes nothing and ends the
\* connection normally; a read that ends in any other error is answered by
\* one write of a 400 response and ends the connection; after either no
\* request is read and nothing is written on the connection.
C3_ReadOutcomeDecides ==
    [][/\ (pc \in {"request_line", "headers"} /\ pc' = "done" /\ result' # "panic") =>
             \/ /\ read_result' = "EndOfFile"
                /\ out' = out
                /\ result' = "Ok"
             \/ /\ read_result' \in {"InvalidRequest", "Io"}
                /\ out' = Append(out, [src |-> "read_error", request_line |-> <<>>,
                                       ok |-> client # "reset"])
                /\ w' = [status_code |-> 400]
                /\ result' = IF client # "reset" THEN "Ok" ELSE "Err"
       /\ pc \in {"request_line", "headers"} /\ read_result' \notin {"Ok", read_result} =>
             pc' = "done"
       /\ pc = "done" => pc' = "done" /\ out' = out /\ reqs' = reqs /\ inbox' = inbox]_vars

\* a request was answered, the next one did not parse: one 400, and the end
C3_Witness ==
    /\ pc = "done" /\ result = "Ok"
    /\ read_result = "InvalidRequest"
    /\ Len(out) = 2
    /\ out[1].src = "handler" /\ out[2].src = "read_error" /\ out[2].ok
    /\ w = [status_code |-> 400]

\* C4: when all concurrent file writers of one path have completed, and one
\* of them succeeded, the file holds the body of one successful writer in
\* full and nothing else.
C4_OneBodyInFull ==
    (\A i \in 1..Writers : fw[i].pc = "done") /\ (\E i \in 1..Writers : fw[i].status = 201)
        => \E i \in 1..Writers : fw[i].status = 201 /\ file = fw[i].body

\* C5: a request over a size limit is answered with 400: when the
\* connection has ended in the read of a message that exceeds a limit, and
\* was not aborted, the last write is the 400 of a read error.
C5_OverLimitIs400 ==
    (pc = "done" /\ read_result # "Ok" /\ client # "reset"
        /\ Len(sent) > Len(reqs) /\ Messages[sent[Len(reqs) + 1]].over)
        => /\ out # <<>>
           /\ out[Len(out)].src = "read_error"
           /\ w = [status_code |-> 400]

\* C6: the read of one request consumes at most 1024 bytes as request line,
\* at most 8192 bytes over all its header lines, at most 8192 bytes as
\* body, and no read of a line returns more than the budget left before it.
C6_WithinBudget ==
    /\ used.line <= RequestLineLimit
    /\ used.headers <= HeaderLimit
    /\ used.body <= BodyLimit
    /\ used.last <= used.budget

\* the header budget was used up while the client had written more
C6_Witness ==
    /\ used.headers = HeaderLimit
    /\ used.last = used.budget
    /\ ByteLen(inbox) > 0

\* C7: when the client stalls, whatever it has written, the worker
\* terminates and the connection is closed.
C7_StalledClientEnds == (client = "stalled") ~> (pc = "done" /\ result # "none")

\* the client wrote a request line without the blank line and stalled; the
\* timed-out read ended the worker
C7_Witness ==
    /\ client = "stalled"
    /\ sent = <<"partial">>
    /\ pc = "done" /\ result = "Ok"
    /\ read_result = "Io"

\* C8: when the client has written well-formed requests without
\* Connection: close back to back and closed, the worker has parsed exactly
\* these requests in order, with their bodies, and then met end of file.
C8_BackToBackFraming ==
    (pc = "done" /\ client = "closed"
        /\ \A k \in 1..Len(sent) : Messages[sent[k]].wf /\ ~Messages[sent[k]].close)
        => /\ read_result = "EndOfFile"
           /\ Len(reqs) = Len(sent)
           /\ \A k \in 1..Len(reqs) :
                 /\ reqs[k].request_line = Messages[sent[k]].request_line
                 /\ Messages[sent[k]].body # <<>> => reqs[k].body = Messages[sent[k]].body

\* C9: the worker ends the connection only because the client closed and
\* its bytes are read, because the answered request carried Connection:
\* close, because of a parse error answered with 400, or because of an I/O
\* error or read timeout.
C9_EndsOnlyForCause ==
    [][(pc # "done" /\ pc' = "done") =>
          \/ read_result' = "EndOfFile" /\ client = "closed"
          \/ pc = "handle" /\ Current.close /\ out'[Len(out')].src = "handler"
          \/ /\ pc # "handle" /\ read_result' = "InvalidRequest"
             /\ out'[Len(out')].src = "read_error" /\ w' = [status_code |-> 400]
          \/ pc # "handle" /\ read_result' = "Io"
          \/ result' = "Err"]_vars

Norm(p) ==
    LET c == clean(p)
    IN  Path(c.abs, IF c.segs = <<".">> THEN <<>> ELSE c.segs)

\* the number of `..` a normal form starts with
Ups(segs) == Cardinality({i \in 1..Len(segs) : segs[i] = ".."})

\* path p lies inside (or is) the directory b, both in normal form
Inside(p, b) ==
    /\ p.abs = b.abs
    /\ starts_with(p.segs, b.segs)
    /\ Ups(p.segs) = Ups(b.segs)

\* C12: whatever the base path and the suffix, build_path reports an
\* invalid path or returns a path that lies inside the base path
C12_PathInsideBase ==
    (bp # None /\ bp.res # None /\ bp.res.ok)
        => Inside(Norm(bp.res.path), Norm(bp.base))


\* the chain a target was last matched against, and what is registered in
\* it
Matched == dispatch # None /\ dispatch.op = "match"
TheChain == routes.chain[dispatch.method]
ExactPatterns == DOMAIN TheChain.exact
DynamicPrefixes == DOMAIN TheChain.dynamic
SubtreePatterns == {TheChain.subtree[i].pattern : i \in 1..Len(TheChain.subtree)}

\* the text of t after its first k characters
After(t, k) == SubSeq(t, k + 1, Len(t))

\* t is the prefix P, a `/` and one non-empty segment without `/`
DynamicFits(P, t) ==
    /\ has_prefix(t, P \o "/")
    /\ After(t, Len(P) + 1) # ""
    /\ \A i \in Len(P) + 2..Len(t) : SubSeq(t, i, i) # "/"

C14_LongestSubtree ==
    Matched =>
        LET t == dispatch.target
            sub == {P \in SubtreePatterns : has_prefix(t, P)}
        IN  /\ dispatch.subtree = None <=> sub = {}
            /\ dispatch.subtree # None =>
                   /\ dispatch.subtree.v.m.pattern \in sub
                   /\ \A P \in sub : Len(P) <= Len(dispatch.subtree.v.m.pattern)
                   /\ dispatch.subtree.v.param =
                          After(t, Len(dispatch.subtree.v.m.pattern))

\* the shorter of two nested patterns was registered first and the longer
\* one is returned
C14_Witness ==
    /\ Matched
    /\ dispatch.target = "/a/b/c"
    /\ \E i, j \in 1..Len(TheChain.subtree) :
           /\ TheChain.subtree[i] = Match("/a/b/", 2)
           /\ TheChain.subtree[j] = Match("/a/", 1)
    /\ dispatch.subtree = Some([m |-> Match("/a/b/", 2), param |-> "c"])

\* C15: the dynamic matcher matches exactly the targets made of a
\* registered prefix, a `/` and one non-empty segment without `/`, and the
\* parameter is that segment
C15_OneSegment ==
    Matched =>
        LET t == dispatch.target
            dyn == {P \in DynamicPrefixes : DynamicFits(P, t)}
        IN  /\ dispatch.dynamic # None <=> dyn # {}
            /\ dispatch.dynamic # None =>
                   \E P \in dyn :
                       /\ dispatch.dynamic.v.m = TheChain.dynamic[P]
                       /\ dispatch.dynamic.v.param = After(t, Len(P) + 1)

\* `/a/b` matched `/a/:v` with the parameter `b`
C15_Witness ==
    /\ Matched
    /\ dispatch.target = "/a/b"
    /\ "/a" \in DynamicPrefixes
    /\ dispatch.dynamic # None
    /\ dispatch.dynamic.v.param = "b"
    /\ dispatch.dynamic.v.m.pattern \in {"/a/:v", "/a/:w"}

Handled == dispatch # None /\ dispatch.op = "handle"

\* the method each token stands for ("" for none)
MethodOfToken == [t \in Tokens |->
    CASE t = "GET" -> "Get" [] t = "Post" -> "Post" [] OTHER -> ""]

\* some pattern of the chain matches the target
Fits(chain, t) ==
    \/ t \in DOMAIN chain.exact
    \/ \E P \in DOMAIN chain.dynamic : DynamicFits(P, t)
    \/ \E i \in 1..Len(chain.subtree) : has_prefix(t, chain.subtree[i].pattern)

\* the methods other than m whose chain matches the target
OthersFit(m, t) == {x \in {"Get", "Post"} : x # m /\ Fits(routes.chain[x], t)}

KeyOf == [n \in Names |->
    CASE n = "Set-Cookie" -> "set-cookie" [] n = "set-cookie" -> "set-cookie"
      [] n = "Accept" -> "accept"]
ValuesOf == [t \in ValueTexts |->
    CASE t = " a" -> <<"a">> [] t = " b" -> <<"b">>
      [] t = " a, b" -> <<"a", "b">> [] t = "a ,b " -> <<"a", "b">>]

\* the values sent under a key, in wire order
RECURSIVE WireValues(_, _)
WireValues(ls, key) ==
    IF ls = <<>> THEN <<>>
    ELSE (IF KeyOf[Head(ls).name] = key
          THEN [i \in 1..Len(ValuesOf[Head(ls).text]) |-> Bytes(ValuesOf[Head(ls).text][i])]
          ELSE <<>>) \o WireValues(Tail(ls), key)

WireKeys == {KeyOf[hd.lines[i].name] : i \in 1..Len(hd.lines)}

\* the generated request has been parsed
HeadersParsed == hd # None /\ sent # <<>> /\ Len(reqs) = 1

\* C19: iterating a header yields all the values received under its name,
\* trimmed, in wire order; the header map holds nothing but these values
\* in this order, so that lines with the same values in the same order
\* leave the same map, however the values are spread over the lines
C19_ValuesInWireOrder ==
    HeadersParsed =>
        /\ \A key \in {"set-cookie", "accept"} :
               LET it == get_iter(reqs[1].headers, Bytes(key))
               IN  /\ it.some <=> key \in WireKeys
                   /\ it.it = WireValues(hd.lines, key)
        /\ reqs[1].headers = [k \in {Bytes(key) : key \in WireKeys} |->
               Vector(WireValues(hd.lines, CHOOSE key \in WireKeys : Bytes(key) = k))]

\* `Set-Cookie: a` and `set-cookie: b` were read and the header yields a, b
C19_Witness ==
    /\ HeadersParsed
    /\ hd.lines = <<[name |-> "Set-Cookie", text |-> " a"],
                    [name |-> "set-cookie", text |-> " b"]>>
    /\ get_iter(reqs[1].headers, Bytes("Set-Cookie")).it = <<Bytes("a"), Bytes("b")>>

\* the capitalisations a header is looked up by
LookupNames == [key \in {"set-cookie", "accept"} |->
    IF key = "set-cookie" THEN {"Set-Cookie", "set-cookie", "SET-COOKIE"}
    ELSE {"Accept", "accept", "ACCEPT"}]

\* C20: a header received under any capitalisation of its name is found
\* by get_iter and by get_scalar under any capitalisation, and lines whose
\* names differ in case only are stored under one key
C20_CaseInsensitiveNames ==
    HeadersParsed =>
        /\ DOMAIN reqs[1].headers = {Bytes(key) : key \in WireKeys}
        /\ \A key \in WireKeys : \A n \in LookupNames[key] :
               /\ get_iter(reqs[1].headers, Bytes(n)).some
               /\ get_iter(reqs[1].headers, Bytes(n)).it = WireValues(hd.lines, key)
               /\ Len(WireValues(hd.lines, key)) = 1 =>
                      /\ Headers_get_scalar(reqs[1].headers, Bytes(n)).st = "Some"
                      /\ Headers_get_scalar(reqs[1].headers, Bytes(n)).v = WireValues(hd.lines, key)[1]


\* C11: every connection is accepted, and the request of every connection
\* whose handler returns is answered, whatever the other connections do:
\* a client that stalls and a handler that blocks hold up their own worker
\* only
C11_ConnectionsIsolated ==
    \A c \in 1..MaxConns :
        /\ (conns[c].st = "pending") ~> (conns[c].st # "pending")
        /\ (conns[c].st = "pending" /\ conns[c].client = "request"
               /\ conns[c].handler = "returns")
              ~> (conns[c].out # <<>>)

\* a connection accepted after one whose handler blocks, and after one
\* whose client stalls and still waits, has been answered
C11_Witness ==
    \E a, b, c \in 1..MaxConns :
        /\ conns[a].st = "running" /\ conns[a].pc = "handle"
        /\ conns[a].handler = "blocks"
        /\ conns[b].st = "running" /\ conns[b].client = "stall"
        /\ c > a /\ c > b
        /\ conns[c].client = "request"
        /\ Len(conns[c].out) = 1


\* C21: scalar lookup of a header of a parsed request gives nothing when
\* the header was not received, the value when one value was received,
\* and an error when more than one was
C21_ScalarLookup ==
    HeadersParsed =>
        \A key \in {"set-cookie", "accept"} :
            LET s == Headers_get_scalar(reqs[1].headers, Bytes(key))
                vals == WireValues(hd.lines, key)
            IN  /\ Len(vals) = 0 => s.st = "None"
                /\ Len(vals) = 1 => s.st = "Some" /\ s.v = vals[1]
                /\ Len(vals) > 1 => s.st = "Err"

\* the first read of the connection is over
FirstReadOver == reqs # <<>> \/ result # "none"

\* C22: a parsed request has a body exactly when its method is POST in any
\* case and a Content-Length was received, and the POST with
\* `Content-Length: 2` and the bytes `hi` is parsed with the body `hi`
C22_BodyIffPostWithLength ==
    /\ \A i \in 1..Len(reqs) :
           reqs[i].body # None <=>
               /\ to_lowercase(http_method(reqs[i].request_line).v) = Bytes("post")
               /\ get_iter(reqs[i].headers, Bytes("Content-Length")).some
    /\ (sent # <<>> /\ sent[1] = "post" /\ client # "reset" /\ FirstReadOver) =>
           /\ reqs # <<>>
           /\ reqs[1].request_line = Messages["post"].request_line
           /\ reqs[1].body = Bytes("hi")

\* C23: the request line of every parsed request splits at its spaces into
\* three parts none of which is empty
C23_ThreeNonEmptyParts ==
    \A i \in 1..Len(reqs) :
        LET parts == split(reqs[i].request_line, " ")
        IN  /\ Len(parts) = 3
            /\ \A k \in 1..Len(parts) : parts[k] # <<>>


\* the Accept-Encoding lines among whose values one is `gzip`
AcceptsGzip == {<<"gzip">>, <<" br, gzip">>, <<"br", "gzip">>}

\* the handler has returned
Returned == resp # None /\ resp.stage \in {"returned", "written"}

\* the values a ResponseWriter holds for a header name
HeaderValues(rw, k) == {rw.headers[i][2] : i \in {j \in 1..Len(rw.headers) : rw.headers[j][1] = k}}

\* the headers of a ResponseWriter other than those named
Without(rw, names) == SelectSeq(rw.headers, LAMBDA h : h[1] \notin names)

\* C24: behind the gzip middleware the response of the inner handler is
\* changed exactly when its body is not empty and a value of the request's
\* Accept-Encoding is `gzip`: the body becomes its encoding,
\* Content-Encoding is gzip, Content-Length the new length, and the status,
\* the Content-Type and every other header stay; otherwise the response
\* is the inner handler's
C24_GzipOnlyWhenAccepted ==
    (Returned /\ resp.mw) =>
        IF resp.inner.body # "" /\ resp.accept \in AcceptsGzip
        THEN /\ resp.w.body = GzEncoder(resp.inner.body)
             /\ resp.w.body # resp.inner.body
             /\ HeaderValues(resp.w, "Content-Encoding") = {"gzip"}
             /\ HeaderValues(resp.w, "Content-Length") = {usize_to_string(Len(resp.w.body))}
             /\ HeaderValues(resp.w, "Content-Type") = HeaderValues(resp.inner, "Content-Type")
             /\ Cardinality(HeaderValues(resp.w, "Content-Type")) = 1
             /\ Without(resp.w, {"Content-Encoding", "Content-Length"})
                    = Without(resp.inner, {"Content-Encoding", "Content-Length"})
             /\ resp.w.status_code = resp.inner.status_code
             /\ resp.w.reason_phrase = resp.inner.reason_phrase
        ELSE resp.w = resp.inner

\* the body `hi` of a 200 was encoded for a request with `Accept-Encoding:
\* br, gzip` and the response serialised
C24_Witness ==
    /\ resp # None
    /\ resp.stage = "written"
    /\ resp.mw
    /\ resp.accept = <<" br, gzip">>
    /\ resp.inner.body = "hi"
    /\ resp.inner.status_code = Some(200)
    /\ resp.w.body = GzEncoder("hi")
    /\ resp.wire.body = GzEncoder("hi")

\* a response has been serialised
Written == resp # None /\ resp.stage = "written" /\ ~resp.wire.panic

\* the text holds the part
Contains(text, part) ==
    \E i \in 1..(Len(text) - Len(part) + 1) : SubSeq(text, i, i + Len(part) - 1) = part

\* C25: the bytes of a response whose status is not 404 hold a Content-Type
\* and a Content-Length header line, end their head with the blank line and
\* go on with the body
C25_HeadersOnEveryResponse ==
    (Written /\ resp.w.status_code # Some(404)) =>
        /\ Contains(resp.wire.head, "\r\nContent-Type: ")
        /\ Contains(resp.wire.head,
                    "\r\nContent-Length: " \o usize_to_string(Len(resp.w.body)) \o "\r\n")
        /\ ends_with(resp.wire.head, "\r\n\r\n")
        /\ resp.wire.body = resp.w.body

\* C26: the bytes of a 404 are the status line and the CRLF that ends the
\* head, whatever headers and body the ResponseWriter holds
C26_NotFoundIsBare ==
    (Written /\ resp.w.status_code = Some(404)) =>
        /\ resp.wire.head = "HTTP/1.1 404 Not Found\r\n\r\n"
        /\ resp.wire.body = ""

\* a 404 whose ResponseWriter held a body and headers was serialised
C26_Witness ==
    /\ Written
    /\ resp.w.status_code = Some(404)
    /\ resp.w.body = "hi"
    /\ Len(resp.w.headers) >= 2
    /\ resp.wire.head = "HTTP/1.1 404 Not Found\r\n\r\n"


\* a file handler has answered
Answered(op) == fh # None /\ fh.op = op /\ ~fh.panic

\* the path the handler resolved, if it is a valid one
Resolved == IF fh.param = None THEN None
            ELSE IF build_path(fsys.base_path, fh.param.v).ok
            THEN Some(Key(build_path(fsys.base_path, fh.param.v).path))
            ELSE None

\* what fs::read finds at the resolved path
ReadFinds ==
    LET k == Resolved.v
    IN  IF fh.denied = "read" THEN "error"
        ELSE IF k \in DOMAIN fh.before /\ fh.before[k].kind = "file" THEN "file"
        ELSE IF k \in AlwaysDirs \/ k \in DOMAIN fh.before THEN "error"
        ELSE IF \E i \in 1..(Len(k) - 1) :
                    /\ SubSeq(k, 1, i) \in DOMAIN fh.before
                    /\ fh.before[SubSeq(k, 1, i)].kind = "file"
        THEN "error"
        ELSE "missing"

\* the file writer can make the directories and write the file
CanWrite ==
    LET k == Resolved.v
    IN  /\ fh.denied # "write"
        /\ fh.denied = "create_dir_all" =>
               \A i \in 1..(Len(k) - 1) :
                   SubSeq(k, 1, i) \in DOMAIN fh.before \cup AlwaysDirs
        /\ k # <<>>
        /\ \A i \in 1..Len(k) :
               SubSeq(k, 1, i) \in DOMAIN fh.before =>
                   fh.before[SubSeq(k, 1, i)].kind = (IF i < Len(k) THEN "dir" ELSE "file")
        /\ k \notin AlwaysDirs

\* C27: the retriever answers 400 without parameter or with an invalid
\* path, 404 when there is no file, 500 for any other read error, and 200
\* with the file's bytes as application/octet-stream.  The writer answers
\* 400 without parameter or with an invalid path and leaves the file
\* system as it was, 500 when a directory cannot be made or the file not
\* written, and 201 with the file at the resolved path holding the body.
C27_FileHandlerStatuses ==
    /\ Answered("retrieve") =>
           /\ fsys.nodes = fh.before
           /\ fh.w.status_code =
                  Some(CASE Resolved = None       -> 400
                         [] ReadFinds = "file"    -> 200
                         [] ReadFinds = "missing" -> 404
                         [] OTHER                 -> 500)
           /\ IF fh.w.status_code = Some(200)
              THEN /\ fh.w.body = fh.before[Resolved.v].data
                   /\ HeaderValues(fh.w, "Content-Type") = {"application/octet-stream"}
              ELSE fh.w.body = "" /\ fh.w.headers = <<>>
    /\ Answered("write") =>
           /\ fh.w.status_code =
                  Some(CASE Resolved = None -> 400
                         [] CanWrite        -> 201
                         [] OTHER           -> 500)
           /\ fh.w.status_code = Some(400) => fsys.nodes = fh.before
           /\ fh.w.status_code = Some(201) =>
                  /\ fsys.nodes[Resolved.v] = File(fh.body.v)
                  /\ \A k \in DOMAIN fh.before \ {Resolved.v} :
                         k \in DOMAIN fsys.nodes /\ fsys.nodes[k] = fh.before[k]

\* the retriever answered 200 with the bytes `x`, which the writer had
\* put into a file below a directory it made
C27_Witness ==
    /\ Answered("retrieve")
    /\ fsys.base_path = Path(FALSE, <<"d">>)
    /\ fh.param = Some(Path(FALSE, <<"s", "f">>))
    /\ fh.w.status_code = Some(200)
    /\ fh.w.body = "x"
    /\ fsys.nodes[<<"d", "s", "f">>] = File("x")


\* the method token of each request of MethodMsgs and the method it is to
\* stand for ("" for none)
TokenOf == [m \in MethodMsgs |->
    CASE m = "get" -> "GET" [] m = "get_lower" -> "get" [] m = "get_length" -> "GeT"
      [] m = "post" -> "POST" [] m = "post_lower" -> "post" [] m = "post_mixed" -> "PoSt"
      [] m = "put_length" -> "PUT" [] m = "posts" -> "POSTS"]
MethodOf == [m \in MethodMsgs |->
    CASE m \in {"get", "get_lower", "get_length"} -> "Get"
      [] m \in {"post", "post_lower", "post_mixed"} -> "Post"
      [] OTHER -> ""]

\* C28: every spelling of GET is the method Get, every spelling of POST is
\* the method Post and any other token is no method; and the request
\* parser, given a request with that token, parses it with a body exactly
\* when the token is Post
C28_MethodsConsistent ==
    /\ \A m \in MethodMsgs :
           HttpMethod_try_from(TokenOf[m]) =
               (IF MethodOf[m] = "" THEN None ELSE Some(MethodOf[m]))
    /\ (sent # <<>> /\ client # "reset" /\ FirstReadOver) =>
           /\ reqs # <<>>
           /\ reqs[1].request_line = Messages[sent[1]].request_line
           /\ reqs[1].body # None <=> MethodOf[sent[1]] = "Post"

\* C29: when a socket read or a socket write of the connection fails,
\* handle_connection ends and returns the error
C29_IoErrorPropagates ==
    /\ (result # "none" /\ read_result = "Io") => result = "Err"
    /\ (out # <<>> /\ ~out[Len(out)].ok) => result = "Err"

\* how the stream ends after each message of CutMsgs
EndsAt == [m \in CutMsgs |->
    IF m \in {"get", "partial", "cut_headers"} THEN "boundary" ELSE "inside"]

\* the client wrote complete requests and then, at most, one that is cut
CutLast ==
    /\ \A i \in 1..(Len(sent) - 1) : sent[i] = "get"
    /\ \A i \in 1..Len(sent) : sent[i] \in CutMsgs

\* C30: when the stream ends, the read that meets the end fails with
\* EndOfFile if the end is at a line boundary (before any byte of a
\* request, after the request line, after a header line) and with
\* InvalidRequest if it is inside a line; when the socket fails instead,
\* the read fails with the I/O error
C30_TruncationClassified ==
    (CutLast /\ pc = "done" /\ read_result \notin {"none", "Ok"}) =>
        read_result =
            (IF client # "closed" THEN "Io"
             ELSE IF sent = <<>> \/ EndsAt[sent[Len(sent)]] = "boundary" THEN "EndOfFile"
             ELSE "InvalidRequest")

\* a request was answered and the stream then ended after a header line of
\* the next one: the read ended with EndOfFile
C30_Witness ==
    /\ sent = <<"get", "cut_headers">>
    /\ client = "closed"
    /\ Len(out) = 1
    /\ pc = "done"
    /\ read_result = "EndOfFile"
    /\ used.headers > 0


\* the source as call i of the log left it
SrcAfter(i) == IF i = Len(sr.log) THEN sr.src ELSE sr.log[i + 1].src

\* call i is a read_line made with the budget used up
Starved(i) == sr.log[i].op = "read_line" /\ sr.log[i].budget = 0

\* call j is the first read_line made with a budget after call i
NextFed(i, j) ==
    /\ i < j
    /\ sr.log[j].op = "read_line"
    /\ sr.log[j].budget > 0
    /\ \A k \in (i + 1)..(j - 1) : sr.log[k].op = "read_line" => sr.log[k].budget = 0

\* C31: a read_line made with the budget used up returns EndOfFile and
\* takes no byte from the source, and the first read_line made with a new
\* budget finds the source as it was: it returns the bytes at its start, up
\* to the line feed, the budget or the end
C31_ExhaustedReadsNothing ==
    sr # None =>
        /\ \A i \in 1..Len(sr.log) :
               Starved(i) =>
                   /\ sr.log[i].st = "EndOfFile"
                   /\ sr.log[i].line = <<>>
                   /\ SrcAfter(i) = sr.log[i].src
        /\ \A i, j \in 1..Len(sr.log) :
               (Starved(i) /\ NextFed(i, j)) =>
                   /\ sr.log[j].src = sr.log[i].src
                   /\ sr.log[i].src # <<>> =>
                          LET line == sr.log[j].line
                              n == Len(line)
                          IN  /\ sr.log[j].st = "Ok"
                              /\ n > 0
                              /\ line = SubSeq(sr.log[i].src, 1, n)
                              /\ n <= sr.log[j].budget
                              /\ \A k \in 1..(n - 1) : line[k].c # "\n"
                              /\ \/ line[n].c = "\n"
                                 \/ n = sr.log[j].budget
                                 \/ n = Len(sr.log[i].src)

\* with a budget of 3 the reader read `foo` of `foo\r\nbar\r\n`, then met
\* the end of the budget, and with a budget of 5 it read the `\r\n` left
C31_Witness ==
    /\ sr # None
    /\ Len(sr.log) = 5
    /\ sr.log[2].op = "read_line" /\ sr.log[2].line = Bytes("foo")
    /\ Starved(3)
    /\ sr.log[3].st = "EndOfFile"
    /\ sr.log[4].op = "set_limit"
    /\ sr.log[5].op = "read_line" /\ sr.log[5].st = "Ok" /\ sr.log[5].line = Bytes("\r\n")
    /\ sr.src = Bytes("bar\r\n")


\* the read of the first request has read its request line and all of its
\* header block, the blank line included
InBodyPhase ==
    LET m == Messages[sent[1]]
    IN  /\ used.line = ByteLen(m.request_line) + 2
        /\ used.headers = ByteLen(m.bytes) - ByteLen(m.request_line) - 2 - ByteLen(m.body)
        /\ reqs = <<>>

\* C32: the read of a POST that has come to the body fails with
\* InvalidRequest when the Content-Length is missing, is no non-negative
\* integer or was given more than once; with a Content-Length of 2 and one
\* body byte it fails with InvalidRequest when the stream has ended, and
\* with the I/O error when the socket read fails instead
C32_BodyPhaseErrors ==
    (sent # <<>> /\ sent[1] \in BodyMsgs \ {"get", "post"} /\ InBodyPhase
        /\ pc = "done" /\ read_result # "none") =>
        read_result =
            (IF sent[1] # "post_short" THEN "InvalidRequest"
             ELSE IF client = "closed" THEN "InvalidRequest"
             ELSE "Io")


\* the body of a ResponseWriter and its Content-Length and Content-Type
\* headers agree
Agree(rw) ==
    LET cl == HeaderValues(rw, "Content-Length")
        ct == HeaderValues(rw, "Content-Type")
        at(k) == {i \in 1..Len(rw.headers) : rw.headers[i][1] = k}
    IN  /\ Cardinality(at("Content-Length")) <= 1
        /\ Cardinality(at("Content-Type")) <= 1
        /\ cl # {} => cl = {usize_to_string(Len(rw.body))} /\ ct # {}
        /\ cl = {} => rw.body = "" /\ ct = {}

\* C33: whatever the handler and the gzip middleware have called on the
\* ResponseWriter, a Content-Length header is there exactly when a body was
\* set, its value is the number of bytes of the body as it is now, and a
\* Content-Type header is there with it
C33_BodyAndHeadersAgree ==
    resp # None =>
        /\ Agree(resp.w)
        /\ resp.inner # None => Agree(resp.inner)

\* the handler set the body `hi` after the empty body, and the middleware
\* set the encoded body in its place
C33_Witness ==
    /\ Returned
    /\ resp.mw
    /\ resp.calls >= 2
    /\ resp.inner.body = "hi"
    /\ HeaderValues(resp.inner, "Content-Length") = {"2"}
    /\ resp.w.body = GzEncoder("hi")
    /\ HeaderValues(resp.w, "Content-Length") = {usize_to_string(Len(GzEncoder("hi")))}
    /\ HeaderValues(resp.w, "Content-Encoding") = {"gzip"}
    /\ HeaderValues(resp.w, "Content-Type") = {"text/plain"}
    /\ resp.w.headers[1][1] = "Content-Encoding"


\* no name occurs twice in a header list
NoDup(h) == \A i, j \in 1..Len(h) : h[i][1] = h[j][1] => i = j

\* the names add_header is tried with on the headers of the ResponseWriter
AddedNames == {"Allow", "Content-Type", "Content-Length", "Content-Encoding", "Date"}

\* C34: no name occurs twice among the headers of a ResponseWriter, and
\* add_header with a name that is there puts the new value in the place of
\* the old one and leaves every other entry and the order as they are,
\* while a name that is not there is appended at the end
C34_UpsertByName ==
    resp # None =>
        LET h == resp.w.headers
        IN  /\ NoDup(h)
            /\ \A k \in AddedNames :
                   LET rw2 == add_header(resp.w, k, "v")
                       h2 == rw2.headers
                       at == {i \in 1..Len(h) : h[i][1] = k}
                   IN  /\ NoDup(h2)
                       /\ [rw2 EXCEPT !.headers = h] = resp.w
                       /\ IF at # {}
                          THEN /\ Len(h2) = Len(h)
                               /\ \A i \in 1..Len(h) :
                                      h2[i] = IF i \in at THEN <<k, "v">> ELSE h[i]
                          ELSE h2 = Append(h, <<k, "v">>)

\* after Allow and the headers of a text body, set_body put the new
\* content type and length in the second and third place
C34_Witness ==
    /\ resp # None
    /\ resp.calls = 3
    /\ resp.w.body = "ab"
    /\ resp.w.headers = << <<"Allow", "GET">>,
                           <<"Content-Type", "application/octet-stream">>,
                           <<"Content-Length", "2">> >>


LastSlash(p) == CHOOSE i \in 1..Len(p) :
                    SubSeq(p, i, i) = "/" /\ \A j \in (i + 1)..Len(p) : SubSeq(p, j, j) # "/"
LastSegment(p) == After(p, LastSlash(p))

\* the sub-table a pattern belongs to
Class(p) ==
    IF p = "/" THEN "exact"
    ELSE IF SubSeq(p, Len(p), Len(p)) = "/" THEN "subtree"
    ELSE IF LastSegment(p) # "" /\ SubSeq(LastSegment(p), 1, 1) = ":" THEN "dynamic"
    ELSE "exact"

\* the shape of the three sub-tables of a chain
Shape(chain) ==
    /\ \A p \in DOMAIN chain.exact :
           /\ p = "/" \/ SubSeq(p, Len(p), Len(p)) # "/"
           /\ Class(p) = "exact"
    /\ \A P \in DOMAIN chain.dynamic :
           /\ Class(chain.dynamic[P].pattern) = "dynamic"
           /\ chain.dynamic[P].pattern = P \o "/" \o LastSegment(chain.dynamic[P].pattern)
    /\ \A i \in 1..Len(chain.subtree) :
           /\ SubSeq(chain.subtree[i].pattern, Len(chain.subtree[i].pattern),
                     Len(chain.subtree[i].pattern)) = "/"
           /\ chain.subtree[i].pattern # "/"
           /\ Class(chain.subtree[i].pattern) = "subtree"
    /\ \A i, j \in 1..Len(chain.subtree) :
           i < j => ~Less(chain.subtree[i].pattern, chain.subtree[j].pattern)

\* add_route puts the pattern into the sub-table it belongs to and leaves
\* the other two as they are; the handler 0 stands for a new one
Classified(chain, p) ==
    LET c2 == Chain_add_route(chain, p, 0)
    IN  /\ Shape(c2)
        /\ Class(p) = "exact" =>
               /\ DOMAIN c2.exact = DOMAIN chain.exact \cup {p}
               /\ c2.exact[p] = 0
               /\ \A q \in DOMAIN chain.exact \ {p} : c2.exact[q] = chain.exact[q]
               /\ c2.dynamic = chain.dynamic /\ c2.subtree = chain.subtree
        /\ Class(p) = "dynamic" =>
               LET P == SubSeq(p, 1, LastSlash(p) - 1)
               IN  /\ DOMAIN c2.dynamic = DOMAIN chain.dynamic \cup {P}
                   /\ c2.dynamic[P] = Match(p, 0)
                   /\ \A Q \in DOMAIN chain.dynamic \ {P} : c2.dynamic[Q] = chain.dynamic[Q]
                   /\ c2.exact = chain.exact /\ c2.subtree = chain.subtree
        /\ Class(p) = "subtree" =>
               /\ \E i \in 1..Len(c2.subtree) :
                      /\ c2.subtree[i] = Match(p, 0)
                      /\ SubSeq(c2.subtree, 1, i - 1) \o SubSeq(c2.subtree, i + 1, Len(c2.subtree))
                             = chain.subtree
               /\ c2.exact = chain.exact /\ c2.dynamic = chain.dynamic

\* a pattern whose registration passes the assertions of the matchers
Storable(p) ==
    (Class(p) = "dynamic" /\ LastSlash(p) > 1) =>
        SubSeq(p, LastSlash(p) - 1, LastSlash(p) - 1) # "/"

\* C36: after any sequence of add_route calls with patterns that start
\* with `/`, every exact pattern is `/` or does not end with `/`; every
\* dynamic entry is stored under a prefix that does not end with `/`, the
\* prefix being its pattern without the last `/` and the segment after
\* it, which starts with `:`; every subtree pattern ends with `/` and is
\* not `/`; the subtree list is in descending order of its patterns; and
\* add_route puts a pattern into exactly one sub-table: `/` exact, a `/`
\* at the end subtree, a last segment that starts with `:` dynamic,
\* otherwise exact.  A dynamic pattern whose prefix would end with `/` is
\* refused by a panic, and only such a pattern is.
C36_TableShape ==
    /\ Shape(routes.chain["Get"])
    /\ \A P \in DOMAIN routes.chain["Get"].dynamic : ~ends_with(P, "/")
    /\ \A p \in ShapePatterns : Storable(p) => Classified(routes.chain["Get"], p)
    /\ Panicked => ~Storable(dispatch.pattern)

\* a dynamic and two subtree patterns are registered, the longer subtree
\* pattern first although it was registered last
C36_Witness ==
    /\ routes.n = 3
    /\ DOMAIN routes.chain["Get"].exact = {}
    /\ DOMAIN routes.chain["Get"].dynamic = {"/a"}
    /\ Len(routes.chain["Get"].subtree) = 2
    /\ routes.chain["Get"].subtree[1] = Match("/a/b/", 3)
    /\ routes.chain["Get"].subtree[2].pattern = "/a/"


\* two patterns that are registered under the same key of the same matcher
SameKey(p, q) ==
    /\ Class(p) = Class(q)
    /\ IF Class(p) = "dynamic"
       THEN SubSeq(p, 1, LastSlash(p) - 1) = SubSeq(q, 1, LastSlash(q) - 1)
       ELSE p = q

\* C39: when a pattern is registered whose key is already registered, a
\* target that was matched by the earlier registration is matched by the
\* later one afterwards, for exact, dynamic and subtree patterns alike
C39_LaterWins ==
    [][\A p \in Patterns :
           (routes'.n = routes.n + 1 /\
            routes'.chain["Get"] = Chain_add_route(routes.chain["Get"], p, routes.n + 1)) =>
               \A t \in Targets :
                   LET was == Chain_pattern_match(routes.chain["Get"], t)
                       now == Chain_pattern_match(routes'.chain["Get"], t)
                   IN  (was # None /\ SameKey(was.v.m.pattern, p)) =>
                           (now # None /\ now.v.m = Match(p, routes.n + 1))]_vars


\* everything the client wrote with its first k messages
RECURSIVE Wire(_)
Wire(k) == IF k = 0 THEN <<>> ELSE Wire(k - 1) \o Messages[sent[k]].bytes

\* C40: a request whose method is no spelling of POST is read up to its
\* blank line and no further, also when it has a Content-Length and bytes
\* follow: the request has no body, the bytes are still in the stream when
\* the handler runs, and they are the start of the request line of the
\* next request of the connection
C40_NothingPastBlankLine ==
    \A k \in 1..Len(reqs) :
        /\ reqs[k].body = None
        /\ (k = Len(reqs) /\ pc = "handle") =>
               inbox = DropBytes(Wire(Len(sent)),
                                 ByteLen(Wire(k)) - ByteLen(Messages[sent[k]].body))
        /\ k > 1 => reqs[k].request_line =
                        Messages[sent[k - 1]].body \o Messages[sent[k]].request_line

\* a GET with a Content-Length and two bytes after its blank line, then a
\* GET: the second request line starts with the two bytes
C40_Witness ==
    /\ sent = <<"get_body", "get">>
    /\ Len(reqs) = 2
    /\ reqs[1].request_line = GetRoot
    /\ reqs[2].request_line = Bytes("hiGET / HTTP/1.1")
    /\ inbox = <<>>


\* the method, the target and the version of each request of LineMsgs
LineParts == [m \in LineMsgs |->
    CASE m = "get"        -> <<"GET", "/", "HTTP/1.1">>
      [] m = "get_lower"  -> <<"get", "/", "HTTP/1.1">>
      [] m = "about"      -> <<"GET", "/about", "HTTP/1.1">>
      [] m = "post"       -> <<"POST", "/files/a", "HTTP/1.1">>
      [] m = "post_mixed" -> <<"PoSt", "/files/a", "HTTP/1.1">>
      [] m = "options"    -> <<"OPTIONS", "*", "http/1.0">>
      [] m = "odd"        -> <<"x", "/a?b=c:d", "v">>]

\* C38: a request whose request line is `M SP T SP V` followed by CRLF,
\* with M, T and V non-empty and without a space, is parsed, and
\* http_method, request_target and http_version of the parsed request are
\* M, T and V as they were written
C38_RequestLineRoundTrip ==
    /\ \A m \in LineMsgs :
           Messages[m].request_line =
               Bytes(LineParts[m][1] \o " " \o LineParts[m][2] \o " " \o LineParts[m][3])
    /\ (sent # <<>> /\ client # "reset" /\ FirstReadOver) =>
           /\ reqs # <<>>
           /\ http_method(reqs[1].request_line) =
                  [some |-> TRUE, v |-> Bytes(LineParts[sent[1]][1])]
           /\ request_target(reqs[1].request_line) =
                  [some |-> TRUE, v |-> Bytes(LineParts[sent[1]][2])]
           /\ http_version(reqs[1].request_line) =
                  [some |-> TRUE, v |-> Bytes(LineParts[sent[1]][3])]


=============================================================================
